---- MODULE Spec2Model ----
(***************************************************************************)
(* Buscador JSON / Hydra Sources Search Engine.                            *)
(*                                                                         *)
(* A verification development of the client of the `code/` variant:        *)
(*   - the bounded LRU cache            (lib/lru-cache.ts)                 *)
(*   - the application data store       (hooks/use-data-state.ts)          *)
(*   - the URL source loader            (lib/search.ts, loadSingleSource)  *)
(*   - the ingestion paths              (dialog, loader, page, manager)    *)
(*   - the search engine and its caches (lib/search.ts, filterResults)     *)
(*   - de-duplication                   (processAndDeduplicateDownloads)   *)
(*                                                                         *)
(* Each part has its own variables, initial predicate, actions and         *)
(* specification; a specification leaves the other parts' variables        *)
(* unchanged.                                                              *)
(***************************************************************************)
EXTENDS Integers, Sequences, FiniteSets, TLC

VARIABLES
    \* ---- LRUCache (lib/lru-cache.ts) ----
    lru,            \* [cache: key -> value (a Map), accessOrder: Seq(key)]
    lruMaxSize,     \* this.maxSize
    lruHasOnEvict,  \* whether the constructor was given an onEvict callback
    lruEvicted,     \* the onEvict invocations <<key, value>> of the last call
    lruRecency,     \* history: every key ever passed to get/set, oldest touch first
    lruOnlyGetSet,  \* history: no delete/clear call was made so far
    lruLast,        \* history: the last call, with the cache as it was before
    \* ---- useDataState (hooks/use-data-state.ts) ----
    gogData,          \* state.gogData: Seq of catalogs [name, payload, tag]
    savedSources,     \* state.savedSources: Seq of [name, url, type, serverId]
    uploadInProgress, \* the module-level Set of catalog names
    uploads,          \* names whose uploadToServer promise has not settled
    loads,            \* number of loadSavedSource calls awaiting downloadFromServer
    toast,            \* [title: the last notice, count: number of toast() calls mod 2]
    storeOrder,       \* history: names by their last insertion, oldest first
    storeLast,        \* history: the last store operation and its outcome
    \* ---- the source loader (lib/search.ts) ----
    now,                 \* Date.now(), in milliseconds
    processedUrlLoads,   \* the module-level Set of URLs
    recentlyRemovedUrls, \* the module-level Set of URLs and source names
    failedUrlAt,         \* the module-level Record url -> timestamp (0: no entry)
    urlCache,            \* url-cache.ts: url -> [data, timestamp] (NoEntry: none)
    loader,              \* per loadSingleSource invocation: [pc, url, data]
    loaderCalls,         \* number of loadSingleSource calls made so far
    netDelivered,        \* history: per URL, onAddData calls with a fetched catalog
    lastFailure,         \* history: per URL, when a load last ended in failure (0: never)
    sawBackoffSkip,      \* history: some call returned because of the retry window
    lastCheck,           \* history: the last decision of a call to fetch or not
    \* ---- the ingestion paths (upload dialog, loader callbacks, sources manager) ----
    parsed,              \* the parsed JSON value an ingestion path receives
    lastIngest,          \* history: what the last path to run handed to addGogData
    \* ---- processAndDeduplicateDownloads (lib/search.ts) ----
    gogs,                \* the catalogs handed to it
    dedupRan,            \* whether it has run
    dedupResults,        \* what it returned
    \* ---- filterResults and its caches (lib/search.ts) ----
    weakSearchCache,       \* WeakMap: record identity -> [searchText, words]
    persistentSearchCache, \* LRUCache: `title:uploadDate` -> [searchText, words, title, uploadDate]
    today,                 \* Date.now(): [day since the epoch, ms into the day]
    lastSearch,            \* history: the last call's result, and its result with empty caches
    \* ---- filterResults called on a fixture (lib/search.ts) ----
    searchCall,            \* the call's arguments and, once it has returned, its outcome
    \* ---- the URL cache over days (lib/url-cache.ts) ----
    lastGet,               \* history: the last getCachedUrl call
    \* ---- SearchBar (components/search-bar.tsx) ----
    barInput,              \* the input state
    barValue,              \* the value prop (the page's filters.searchQuery)
    barTimers,             \* the timers set and neither fired nor cleared
    barTimer,              \* the timer of the last run of the debounce effect
    barClock,              \* milliseconds since the first render
    barChanges,            \* history: the input changes, [v, at]
    barCalls,              \* history: the onChange calls, [v, at, afterChange]
    \* ---- Home (app/page.tsx): deduplication and filter effects ----
    pageGogs,              \* gogData of the store, as the page last rendered it
    pageQuery,             \* filters.searchQuery
    allDownloads,          \* the allDownloads state
    filteredDownloads,     \* the filteredDownloads state
    dedupTimer,            \* the pending timer of the deduplication effect
    filterTimer,           \* the pending timer of the filter effect
    pageChanges,           \* number of changes of gogs and filters so far
    lastFilterPass,        \* history: what the last filter pass used
    \* ---- useHealthCheck ----
    hcMounted,             \* "no", "yes" or "gone"
    hcStatus,              \* health.status
    hcTimeout,             \* timeoutRef: the pending timeout
    hcIntervalTimer,       \* intervalRef: the running interval
    hcClock,               \* milliseconds since the start
    hcInterval,            \* the interval argument
    hcPrev,                \* history: the check before the last
    hcLast,                \* history: the last check
    hcCount,               \* history: number of checks
    \* ---- Home (app/page.tsx): periodic refresh ----
    lastRefresh,           \* history: the last periodicUpdate and what it found
    \* ---- storage adapters ----
    blobStore,             \* idb-keyval store of lib/idb.ts: key -> data, 0 absent
    fileStore,             \* object store "files" of lib/indexeddb.ts: id -> data, 0 absent
    lastAdapterCall,       \* history: the last adapter operation and how it ended
    \* ---- loadSources ----
    batch,                 \* the last loadSources call and its lifecycle callbacks
    \* ---- loadServerSource ----
    serverCall,            \* the loadServerSource call: position, source name, result
    serverListCache,       \* serverListCache: the names listed, {} when empty
    markedProcessed,       \* the names markSourceAsProcessed added to processedUrlLoads
    serverCalls,           \* number of loadServerSource calls so far
    \* ---- expandSearchTermsWithSynonyms ----
    synTerms,              \* the term list, as indices of TermWords
    synPhase,              \* "input", "once", "twice"
    synOnce,               \* what the two functions returned for the list
    synTwice,              \* what they returned for their own results
    \* ---- the recency bonus ----
    bonusCall,             \* the record being scored: its date, its score, the total
    \* ---- useHealthCheck's effect instances ----
    fxMounted,             \* the component is mounted
    effects,               \* the effect instances so far, the last one current
    timers,                \* the timers scheduled: [id, owner, kind]
    intervalRef,           \* intervalRef.current: a timer id or NullRef
    timeoutRef,            \* timeoutRef.current: a timer id or NullRef
    nextTimer,             \* the id the next setTimeout/setInterval returns
    polls,                 \* checks issued by intervals so far
    latePolls,             \* the instances whose interval issued a check after their cleanup
    \* ---- ClientI18nProvider ----
    locale,                \* useAppState().locale
    messages,              \* the messages state of the provider
    bundleLoads,           \* the number of pending loadMessages calls per locale
    localeChanges          \* number of setLocale calls so far

lruVars == <<lru, lruMaxSize, lruHasOnEvict, lruEvicted, lruRecency, lruOnlyGetSet, lruLast>>

storeVars == <<gogData, savedSources, uploadInProgress, uploads, loads, toast,
               storeOrder, storeLast>>

loaderVars == <<now, processedUrlLoads, recentlyRemovedUrls, failedUrlAt, urlCache, loader,
                loaderCalls, netDelivered, lastFailure, sawBackoffSkip, lastCheck>>

ingestVars == <<parsed, lastIngest>>

dedupVars == <<gogs, dedupRan, dedupResults>>

searchVars == <<weakSearchCache, persistentSearchCache, today, lastSearch>>

fixtureVars == <<searchCall>>

urlHistoryVars == <<lastGet>>

pageVars ==
    <<pageGogs, pageQuery, allDownloads, filteredDownloads, dedupTimer, filterTimer,
      pageChanges, lastFilterPass>>

healthVars ==
    <<hcMounted, hcStatus, hcTimeout, hcIntervalTimer, hcClock, hcInterval, hcPrev, hcLast,
      hcCount>>

refreshVars == <<lastRefresh>>

adapterVars == <<blobStore, fileStore, lastAdapterCall>>

batchVars == <<batch>>

serverVars == <<serverCall, serverListCache, markedProcessed, serverCalls>>

synonymVars == <<synTerms, synPhase, synOnce, synTwice>>

bonusVars == <<bonusCall>>

effectVars == <<fxMounted, effects, timers, intervalRef, timeoutRef, nextTimer, polls,
                latePolls>>

i18nVars == <<locale, messages, bundleLoads, localeChanges>>

searchBarVars ==
    <<barInput, barValue, barTimers, barTimer, barClock, barChanges, barCalls>>

\* the parts below the search caches
laterVars ==
    <<fixtureVars, urlHistoryVars, searchBarVars, pageVars, healthVars, refreshVars,
      adapterVars, batchVars, serverVars, synonymVars, bonusVars, effectVars, i18nVars>>
i18nOthers ==
    <<lruVars, storeVars, loaderVars, ingestVars, dedupVars, searchVars, fixtureVars,
      urlHistoryVars, searchBarVars, pageVars, healthVars, refreshVars, adapterVars,
      batchVars, serverVars, synonymVars, bonusVars, effectVars>>

effectOthers ==
    <<lruVars, storeVars, loaderVars, ingestVars, dedupVars, searchVars, fixtureVars,
      urlHistoryVars, searchBarVars, pageVars, healthVars, refreshVars, adapterVars,
      batchVars, serverVars, synonymVars, bonusVars, i18nVars>>

bonusOthers ==
    <<lruVars, storeVars, loaderVars, ingestVars, dedupVars, searchVars, fixtureVars,
      urlHistoryVars, searchBarVars, pageVars, healthVars, refreshVars, adapterVars,
      batchVars, serverVars, synonymVars, effectVars, i18nVars>>

synonymOthers ==
    <<lruVars, storeVars, loaderVars, ingestVars, dedupVars, searchVars, fixtureVars,
      urlHistoryVars, searchBarVars, pageVars, healthVars, refreshVars, adapterVars,
      batchVars, serverVars, bonusVars, effectVars, i18nVars>>

serverOthers ==
    <<lruVars, loaderVars, ingestVars, dedupVars, searchVars, fixtureVars,
      urlHistoryVars, searchBarVars, pageVars, healthVars, refreshVars, adapterVars,
      batchVars, synonymVars, bonusVars, effectVars, i18nVars>>

batchOthers ==
    <<lruVars, storeVars, ingestVars, dedupVars, searchVars, fixtureVars, urlHistoryVars,
      searchBarVars, pageVars, healthVars, refreshVars, adapterVars, serverVars,
      synonymVars, bonusVars, effectVars, i18nVars>>

adapterOthers ==
    <<lruVars, storeVars, ingestVars, dedupVars, searchVars, fixtureVars, urlHistoryVars,
      searchBarVars, pageVars, healthVars, refreshVars, batchVars, serverVars,
      synonymVars, bonusVars, effectVars, i18nVars>>

refreshOthers ==
    <<lruVars, storeVars, ingestVars, dedupVars, searchVars, fixtureVars, urlHistoryVars,
      searchBarVars, pageVars, healthVars, adapterVars, batchVars, serverVars,
      synonymVars, bonusVars, effectVars, i18nVars>>

healthOthers ==
    <<lruVars, storeVars, loaderVars, ingestVars, dedupVars, searchVars, fixtureVars,
      urlHistoryVars, searchBarVars, pageVars, refreshVars, adapterVars, batchVars,
      serverVars, synonymVars, bonusVars, effectVars, i18nVars>>

pageOthers ==
    <<lruVars, storeVars, loaderVars, ingestVars, dedupVars, searchVars, fixtureVars,
      urlHistoryVars, searchBarVars, healthVars, refreshVars, adapterVars, batchVars,
      serverVars, synonymVars, bonusVars, effectVars, i18nVars>>

searchBarOthers ==
    <<lruVars, storeVars, loaderVars, ingestVars, dedupVars, searchVars, fixtureVars,
      urlHistoryVars, pageVars, healthVars, refreshVars, adapterVars, batchVars,
      serverVars, synonymVars, bonusVars, effectVars, i18nVars>>

urlHistoryOthers ==
    <<lruVars, storeVars, ingestVars, dedupVars, searchVars, fixtureVars, searchBarVars,
      pageVars, healthVars, refreshVars, adapterVars, batchVars, serverVars, synonymVars,
      bonusVars, effectVars, i18nVars>>

vars == <<lruVars, storeVars, loaderVars, ingestVars, dedupVars, searchVars, laterVars>>

\* what the operations of one part leave alone: the other parts
lruOthers == <<storeVars, loaderVars, ingestVars, dedupVars, searchVars, laterVars>>
storeOthers == <<lruVars, loaderVars, ingestVars, dedupVars, searchVars, laterVars>>
loaderOthers == <<lruVars, storeVars, ingestVars, dedupVars, searchVars, laterVars>>
ingestOthers == <<lruVars, storeVars, loaderVars, dedupVars, searchVars, laterVars>>
dedupOthers == <<lruVars, storeVars, loaderVars, ingestVars, searchVars, laterVars>>
searchOthers == <<lruVars, storeVars, loaderVars, ingestVars, dedupVars, laterVars>>
fixtureOthers ==
    <<lruVars, storeVars, loaderVars, ingestVars, dedupVars, urlHistoryVars,
      searchBarVars, pageVars, healthVars, refreshVars, adapterVars, batchVars,
      serverVars, synonymVars, bonusVars, effectVars, i18nVars>>

(***************************************************************************)
(* Generic helpers on sequences.                                           *)
(***************************************************************************)
Range(s) == {s[i] : i \in DOMAIN s}

\* Array.prototype.filter(x => x !== k)
Without(s, k) == SelectSeq(s, LAMBDA x : x # k)

(***************************************************************************)
(* LRUCache<K = string, V = any>                                           *)
(***************************************************************************)
NumKeys == 3
MaxCapacity == 2

\* the string keys "k1", "k2", ...
Keys == 1..NumKeys

\* V = any: a stored value may be the JavaScript value undefined
Undefined == "undefined"
Values == {"v1", "v2", Undefined}

\* constructor(maxSize, onEvict): throws unless maxSize > 0
LruNew == [cache |-> <<>>, accessOrder |-> <<>>]

LruHas(c, key) == key \in DOMAIN c.cache

LruSize(c) == Cardinality(DOMAIN c.cache)

\* Map.prototype.set / Map.prototype.delete on the key -> value function
MapSet(m, key, value) == [k \in DOMAIN m \cup {key} |-> IF k = key THEN value ELSE m[k]]
MapDelete(m, key) == [k \in DOMAIN m \ {key} |-> m[k]]

\* an updateAccessOrder that pushes without removing
PushAccessOrder(order, key) == Append(order, key)

\* updateAccessOrder(key): remove from the current position, push at the end
UpdateAccessOrder(order, key) == Append(Without(order, key), key)

\* get(key): [c: the cache afterwards, result: the value or undefined]
LruGet(c, key) ==
    IF ~LruHas(c, key)
    THEN [c |-> c, result |-> Undefined]
    ELSE [c |-> [c EXCEPT !.accessOrder = UpdateAccessOrder(c.accessOrder, key)],
          result |-> c.cache[key]]

\* a set() that never evicts
LruSetNoEvict(c, key, value, maxSize, hasOnEvict) ==
    IF LruHas(c, key)
    THEN [c |-> [cache |-> MapSet(c.cache, key, value),
                 accessOrder |-> UpdateAccessOrder(c.accessOrder, key)],
          evicted |-> <<>>]
    ELSE [c |-> [cache |-> MapSet(c.cache, key, value),
                 accessOrder |-> Append(c.accessOrder, key)],
          evicted |-> <<>>]

\* set(key, value): [c: the cache afterwards, evicted: the onEvict invocations]
LruSet(c, key, value, maxSize, hasOnEvict) ==
    IF LruHas(c, key)
    THEN [c |-> [cache |-> MapSet(c.cache, key, value),
                 accessOrder |-> UpdateAccessOrder(c.accessOrder, key)],
          evicted |-> <<>>]
    ELSE IF LruSize(c) >= maxSize /\ Len(c.accessOrder) > 0
    THEN LET lruKey == Head(c.accessOrder)
             \* Map.get of a key the Map does not hold is undefined
             lruValue == IF lruKey \in DOMAIN c.cache THEN c.cache[lruKey] ELSE Undefined
             rest == MapDelete(c.cache, lruKey)
         IN [c |-> [cache |-> MapSet(rest, key, value),
                    accessOrder |-> Append(Tail(c.accessOrder), key)],
             evicted |-> IF hasOnEvict /\ lruValue # Undefined
                         THEN << <<lruKey, lruValue>> >> ELSE <<>>]
    ELSE [c |-> [cache |-> MapSet(c.cache, key, value),
                 accessOrder |-> Append(c.accessOrder, key)],
          evicted |-> <<>>]

\* delete(key): [c, evicted, result]
LruDelete(c, key, hasOnEvict) ==
    IF ~LruHas(c, key)
    THEN [c |-> c, evicted |-> <<>>, result |-> FALSE]
    ELSE [c |-> [cache |-> MapDelete(c.cache, key),
                 accessOrder |-> Without(c.accessOrder, key)],
          evicted |-> IF hasOnEvict /\ c.cache[key] # Undefined
                      THEN << <<key, c.cache[key]>> >> ELSE <<>>,
          result |-> TRUE]

\* clear()
LruClear(c) == [cache |-> <<>>, accessOrder |-> <<>>]

NoCall == [op |-> "none", key |-> 0, value |-> Undefined, before |-> LruNew]

LruInit ==
    /\ lru = LruNew
    /\ lruMaxSize \in 1..MaxCapacity
    /\ lruHasOnEvict \in BOOLEAN
    /\ lruEvicted = <<>>
    /\ lruRecency = <<>>
    /\ lruOnlyGetSet = TRUE
    /\ lruLast = NoCall

CacheSet(key, value) ==
    LET r == LruSet(lru, key, value, lruMaxSize, lruHasOnEvict)
    IN /\ lru' = r.c
       /\ lruEvicted' = r.evicted
       /\ lruRecency' = Append(Without(lruRecency, key), key)
       /\ lruLast' = [op |-> "set", key |-> key, value |-> value, before |-> lru]
       /\ UNCHANGED <<lruMaxSize, lruHasOnEvict, lruOnlyGetSet, lruOthers>>

CacheGet(key) ==
    LET r == LruGet(lru, key)
    IN /\ lru' = r.c
       /\ lruEvicted' = <<>>
       /\ lruRecency' = Append(Without(lruRecency, key), key)
       /\ lruLast' = [op |-> "get", key |-> key, value |-> r.result, before |-> lru]
       /\ UNCHANGED <<lruMaxSize, lruHasOnEvict, lruOnlyGetSet, lruOthers>>

CacheHas(key) ==
    /\ lruLast' = [op |-> "has", key |-> key,
                   value |-> IF LruHas(lru, key) THEN "true" ELSE "false", before |-> lru]
    /\ lruEvicted' = <<>>
    /\ UNCHANGED <<lru, lruMaxSize, lruHasOnEvict, lruRecency, lruOnlyGetSet, lruOthers>>

CacheDelete(key) ==
    LET r == LruDelete(lru, key, lruHasOnEvict)
    IN /\ lru' = r.c
       /\ lruEvicted' = r.evicted
       /\ lruOnlyGetSet' = FALSE
       /\ lruLast' = [op |-> "delete", key |-> key, value |-> Undefined, before |-> lru]
       /\ UNCHANGED <<lruMaxSize, lruHasOnEvict, lruRecency, lruOthers>>

CacheClear ==
    /\ lru' = LruClear(lru)
    /\ lruEvicted' = <<>>
    /\ lruOnlyGetSet' = FALSE
    /\ lruLast' = [op |-> "clear", key |-> 0, value |-> Undefined, before |-> lru]
    /\ UNCHANGED <<lruMaxSize, lruHasOnEvict, lruRecency, lruOthers>>


(***************************************************************************)
(* useDataState: the application data store                                *)
(***************************************************************************)
MAX_GOG_SOURCES == 50

NumNames == 2
NumPayloads == 2
NumUrls == 1
NumServerIds == 1
MaxInFlight == 1

\* catalog names given to the operations, "n1", "n2", ...
Names == 1..NumNames
\* the catalogs' contents, told apart by a number
Payloads == 1..NumPayloads
\* source URLs; NoUrl is an absent (or empty) sourceUrl
Urls == 1..NumUrls
NoUrl == 0
\* identifiers the backend answers an upload with; NoServerId is no __serverId
ServerIds == 1..NumServerIds
NoServerId == 0

ToastInProgress == "Operacao em andamento"
ToastKeptLocal == "Mantido localmente"
ToastRemoved == "Fonte removida"
ToastAttention == "Atencao"
ToastLoaded == "Fonte carregada"
ToastLoadError == "Erro ao carregar fonte"

\* toast({title, ...})
Toast(title) == [title |-> title, count |-> (toast.count + 1) % 2]

CatalogNames(list) == {list[i].name : i \in DOMAIN list}

\* Array.prototype.findIndex: the first index satisfying Test, 0 for -1
FindIndex(list, Test(_)) ==
    IF \E i \in DOMAIN list : Test(list[i])
    THEN CHOOSE i \in DOMAIN list : Test(list[i]) /\ \A j \in 1..(i - 1) : ~Test(list[j])
    ELSE 0

\* Array.prototype.slice(-n)
SliceLast(list, n) ==
    IF Len(list) > n THEN SubSeq(list, Len(list) - n + 1, Len(list)) ELSE list

\* a merge that keeps the existing catalog of the same name
AddMergeKeepingOld(list, pruned) ==
    LET newGogData == Append(list, pruned)
    IN IF Len(newGogData) > MAX_GOG_SOURCES
       THEN SliceLast(newGogData, MAX_GOG_SOURCES) ELSE newGogData

\* a merge that cuts the list at its end
AddMergeCuttingEnd(list, pruned) ==
    LET newGogData == Append(SelectSeq(list, LAMBDA g : g.name # pruned.name), pruned)
    IN IF Len(newGogData) > MAX_GOG_SOURCES
       THEN SubSeq(newGogData, 1, MAX_GOG_SOURCES) ELSE newGogData

\* addGogData: newGogData = [...gogData.filter(g => g.name !== name), pruned], capped
AddMerge(list, pruned) ==
    LET newGogData == Append(SelectSeq(list, LAMBDA g : g.name # pruned.name), pruned)
    IN IF Len(newGogData) > MAX_GOG_SOURCES
       THEN SliceLast(newGogData, MAX_GOG_SOURCES) ELSE newGogData

\* loadSavedSource: the same merge, written again in its set() callback
LoadMerge(list, pruned) ==
    LET newGogData == Append(SelectSeq(list, LAMBDA g : g.name # pruned.name), pruned)
    IN IF Len(newGogData) > MAX_GOG_SOURCES
       THEN SliceLast(newGogData, MAX_GOG_SOURCES) ELSE newGogData

\* addGogData: the saved-source descriptor is replaced where it matches, else pushed
SavedUpsert(saved, name, url) ==
    LET meta == [name |-> name, url |-> url,
                 type |-> IF url # NoUrl THEN "url" ELSE "file",
                 serverId |-> NoServerId]
        idx == IF url # NoUrl
               THEN FindIndex(saved, LAMBDA x : x.url = url)
               ELSE FindIndex(saved, LAMBDA x : x.name = name /\ x.type = "file")
    IN IF idx = 0 THEN Append(saved, meta) ELSE [saved EXCEPT ![idx] = meta]

\* history record: had/full tell whether the name was held and the list was at its cap
StoreOp(op, name, payload, outcome) ==
    [op |-> op, name |-> name, payload |-> payload, outcome |-> outcome,
     had |-> name \in CatalogNames(gogData),
     old |-> IF name \in CatalogNames(gogData)
             THEN gogData[FindIndex(gogData, LAMBDA g : g.name = name)].payload ELSE 0,
     full |-> Len(gogData) = MAX_GOG_SOURCES]

\* addGogData without its in-progress guard
AddGogDataUnguarded(name, payload, url) ==
    LET pruned == [name |-> name, payload |-> payload,
                   tag |-> IF url # NoUrl THEN "url" ELSE "file"]
    IN /\ gogData' = AddMerge(gogData, pruned)
       /\ savedSources' = SavedUpsert(savedSources, name, url)
       /\ IF url = NoUrl
          THEN /\ uploads' = uploads \cup {name}
               /\ uploadInProgress' = uploadInProgress \cup {name}
               /\ UNCHANGED toast
          ELSE /\ toast' = Toast(ToastKeptLocal)
               /\ UNCHANGED <<uploads, uploadInProgress>>
       /\ storeOrder' = Append(Without(storeOrder, name), name)
       /\ storeLast' = StoreOp("add", name, payload, "stored")
       /\ UNCHANGED <<loads, storeOthers>>

\* addGogData(data, sourceUrl)
AddGogData(name, payload, url) ==
    IF name \in uploadInProgress
    THEN /\ toast' = Toast(ToastInProgress)
         /\ storeLast' = StoreOp("add", name, payload, "rejected")
         /\ UNCHANGED <<gogData, savedSources, uploadInProgress, uploads, loads, storeOrder,
                      storeOthers>>
    ELSE LET pruned == [name |-> name, payload |-> payload,
                        tag |-> IF url # NoUrl THEN "url" ELSE "file"]
         IN /\ gogData' = AddMerge(gogData, pruned)
            /\ savedSources' = SavedUpsert(savedSources, name, url)
            /\ IF url = NoUrl
               THEN \* uploadToServer(prunedData) is started; its promise is pending
                    /\ uploads' = uploads \cup {name}
                    /\ uploadInProgress' = uploadInProgress \cup {name}
                    /\ UNCHANGED toast
               ELSE \* the name is added to uploadInProgress and deleted again
                    /\ toast' = Toast(ToastKeptLocal)
                    /\ UNCHANGED <<uploads, uploadInProgress>>
            /\ storeOrder' = Append(Without(storeOrder, name), name)
            /\ storeLast' = StoreOp("add", name, payload, "stored")
            /\ UNCHANGED <<loads, storeOthers>>

\* uploadToServer resolves with result.id: .then(...) and .finally(...)
UploadResolves(name, id) ==
    /\ name \in uploads
    /\ savedSources' = [i \in DOMAIN savedSources |->
                           IF savedSources[i].name = name
                           THEN [savedSources[i] EXCEPT !.serverId = id]
                           ELSE savedSources[i]]
    /\ uploads' = uploads \ {name}
    /\ uploadInProgress' = uploadInProgress \ {name}
    /\ storeLast' = StoreOp("uploaded", name, 0, "resolved")
    /\ UNCHANGED <<gogData, loads, toast, storeOrder, storeOthers>>

\* a rejected upload without the .finally(...)
UploadRejectsKeepsGuard(name) ==
    /\ name \in uploads
    /\ uploads' = uploads \ {name}
    /\ storeLast' = StoreOp("uploaded", name, 0, "rejected")
    /\ UNCHANGED <<gogData, savedSources, uploadInProgress, loads, toast, storeOrder,
                   storeOthers>>

\* uploadToServer rejects: .catch(...) and .finally(...)
UploadRejects(name) ==
    /\ name \in uploads
    /\ uploads' = uploads \ {name}
    /\ uploadInProgress' = uploadInProgress \ {name}
    /\ storeLast' = StoreOp("uploaded", name, 0, "rejected")
    /\ UNCHANGED <<gogData, savedSources, loads, toast, storeOrder, storeOthers>>

\* removeSource(sourceName); serverOk is the outcome of deleteFromServer
RemoveSource(name, serverOk) ==
    LET idx == FindIndex(savedSources, LAMBDA x : x.name = name)
        hasServerId == idx # 0 /\ savedSources[idx].serverId # NoServerId
    IN /\ gogData' = SelectSeq(gogData, LAMBDA g : g.name # name)
       /\ savedSources' = SelectSeq(savedSources, LAMBDA x : x.name # name)
       /\ toast' = IF hasServerId /\ ~serverOk
                   THEN Toast(ToastAttention) ELSE Toast(ToastRemoved)
       /\ storeOrder' = Without(storeOrder, name)
       /\ storeLast' = StoreOp("remove", name, 0, "removed")
       /\ UNCHANGED <<uploadInProgress, uploads, loads, storeOthers>>

\* loadSavedSource(id) is called and awaits downloadFromServer(id)
LoadSavedSourceCall ==
    /\ loads < MaxInFlight
    /\ loads' = loads + 1
    /\ storeLast' = StoreOp("loadCall", 0, 0, "pending")
    /\ UNCHANGED <<gogData, savedSources, uploadInProgress, uploads, toast, storeOrder,
                 storeOthers>>

\* downloadFromServer answered with a catalog
LoadSavedSourceOk(name, payload) ==
    LET pruned == [name |-> name, payload |-> payload, tag |-> "file"]
    IN /\ loads > 0
       /\ loads' = loads - 1
       /\ gogData' = LoadMerge(gogData, pruned)
       /\ toast' = Toast(ToastLoaded)
       /\ storeOrder' = Append(Without(storeOrder, name), name)
       /\ storeLast' = StoreOp("load", name, payload, "stored")
       /\ UNCHANGED <<savedSources, uploadInProgress, uploads, storeOthers>>

\* downloadFromServer threw (non-OK status, a body that is not JSON, network error)
LoadSavedSourceFails ==
    /\ loads > 0
    /\ loads' = loads - 1
    /\ toast' = Toast(ToastLoadError)
    /\ storeLast' = StoreOp("load", 0, 0, "failed")
    /\ UNCHANGED <<gogData, savedSources, uploadInProgress, uploads, storeOrder,
                 storeOthers>>

NoStoreOp == [op |-> "none", name |-> 0, payload |-> 0, outcome |-> "none",
              had |-> FALSE, old |-> 0, full |-> FALSE]

StoreInit ==
    /\ gogData = <<>>
    /\ savedSources = <<>>
    /\ uploadInProgress = {}
    /\ uploads = {}
    /\ loads = 0
    /\ toast = [title |-> "", count |-> 0]
    /\ storeOrder = <<>>
    /\ storeLast = NoStoreOp

\* the store after loadSavedSource of catalog n1 and of MAX_GOG_SOURCES - 1 others
FillerNames == (NumNames + 1)..(NumNames + MAX_GOG_SOURCES - 1)
FullGogData ==
    [i \in 1..MAX_GOG_SOURCES |->
        IF i = 1 THEN [name |-> 1, payload |-> 1, tag |-> "file"]
        ELSE [name |-> NumNames + i - 1, payload |-> 1, tag |-> "file"]]

StoreInitFull ==
    /\ gogData = FullGogData
    /\ savedSources = <<>>
    /\ uploadInProgress = {}
    /\ uploads = {}
    /\ loads = 0
    /\ toast = [title |-> ToastLoaded, count |-> 0]
    /\ storeOrder = [i \in 1..MAX_GOG_SOURCES |-> FullGogData[i].name]
    /\ storeLast = NoStoreOp


(***************************************************************************)
(* The source loader: loadSingleSource and its module-level state          *)
(***************************************************************************)
NumSources == 2
MaxCalls == 2
MaxLoaderCalls == 3
MaxTicks == 3

FAILED_URL_RETRY_MS == 10 * 60 * 1000
CACHE_EXPIRY == 24 * 60 * 60 * 1000
\* the clock advances in steps of five minutes from StartMs
TickMs == 5 * 60 * 1000
StartMs == TickMs

\* saved URL sources: source u has url "u<u>" and name "n<u>"
SourceUrls == 1..NumSources
\* concurrent loadSingleSource invocations
Procs == 1..MaxCalls
NoEntry == [data |-> 0, timestamp |-> 0]

UrlKey(u) == <<"url", u>>
NameKey(u) == <<"name", u>>

\* what the network answers a fetch of a source URL with
FetchOutcomes == {"notOk", "html", "parseError", "invalid", "throws", "valid"}

\* an expiry that begins at the limit
CacheExpiredAtLimit(entry, t) == t - entry.timestamp >= CACHE_EXPIRY

\* getCachedUrl(url): the entry's data, or 0 (null) when absent, expired or unreadable
CacheExpired(entry, t) == t - entry.timestamp > CACHE_EXPIRY
GetCachedUrl(cache, url, t, readable) ==
    IF ~readable \/ cache[url] = NoEntry \/ CacheExpired(cache[url], t)
    THEN 0 ELSE cache[url].data

\* getCachedUrl deletes an expired entry
CacheAfterGet(cache, url, t, readable) ==
    IF readable /\ cache[url] # NoEntry /\ CacheExpired(cache[url], t)
    THEN [cache EXCEPT ![url] = NoEntry] ELSE cache

\* cacheUrlData(url, data): upserts; a storage failure is logged and swallowed
CacheUrlData(cache, url, data, t, writable) ==
    IF writable THEN [cache EXCEPT ![url] = [data |-> data, timestamp |-> t]] ELSE cache

\* a retry window that also covers its last instant
InBackoffInclusive(lastFailed, t) == lastFailed # 0 /\ t - lastFailed <= FAILED_URL_RETRY_MS

\* lastFailed && Date.now() - lastFailed < FAILED_URL_RETRY_MS
InBackoff(lastFailed, t) == lastFailed # 0 /\ t - lastFailed < FAILED_URL_RETRY_MS

\* recentlyRemovedUrls.has(url) || recentlyRemovedUrls.has(source.name)
RecentlyRemoved(u) == UrlKey(u) \in recentlyRemovedUrls \/ NameKey(u) \in recentlyRemovedUrls

Idle == [pc |-> "idle", url |-> 0, data |-> 0]

\* the decision of a call: processed is what the call read at its start
Check(u, processed, fetched) ==
    [url |-> u, at |-> now, fetched |-> fetched, failedAt |-> lastFailure[u],
     cached |-> urlCache[u] # NoEntry /\ ~CacheExpired(urlCache[u], now),
     processed |-> processed,
     removed |-> RecentlyRemoved(u)]

\* loadSingleSource(source, callbacks) is called: it runs to its first await
LoadSingleSourceCall(i, u) ==
    /\ loader[i].pc = "idle"
    /\ loaderCalls < MaxLoaderCalls
    /\ loaderCalls' = loaderCalls + 1
    /\ IF u \in processedUrlLoads
       THEN /\ lastCheck' = Check(u, TRUE, FALSE)
            /\ UNCHANGED loader
       ELSE /\ loader' = [loader EXCEPT ![i] = [pc |-> "awaitCache", url |-> u, data |-> 0]]
            /\ UNCHANGED lastCheck
    /\ UNCHANGED <<now, processedUrlLoads, recentlyRemovedUrls, failedUrlAt, urlCache,
                   netDelivered, lastFailure, sawBackoffSkip, loaderOthers>>

\* getCachedUrl resolved: deliver the cached catalog, or decide whether to fetch
CacheLookupDone(i, readable) ==
    LET u == loader[i].url
        cached == GetCachedUrl(urlCache, u, now, readable)
    IN /\ loader[i].pc = "awaitCache"
       /\ urlCache' = CacheAfterGet(urlCache, u, now, readable)
       /\ IF cached # 0
          THEN \* processedUrlLoads.add(url); callbacks.onAddData(cached, url)
               /\ processedUrlLoads' = processedUrlLoads \cup {u}
               /\ loader' = [loader EXCEPT ![i] = Idle]
               /\ UNCHANGED <<lastCheck, sawBackoffSkip>>
          ELSE IF InBackoff(failedUrlAt[u], now)
          THEN /\ lastCheck' = Check(u, FALSE, FALSE)
               /\ sawBackoffSkip' = TRUE
               /\ loader' = [loader EXCEPT ![i] = Idle]
               /\ UNCHANGED processedUrlLoads
          ELSE IF RecentlyRemoved(u)
          THEN /\ lastCheck' = Check(u, FALSE, FALSE)
               /\ loader' = [loader EXCEPT ![i] = Idle]
               /\ UNCHANGED <<processedUrlLoads, sawBackoffSkip>>
          ELSE \* fetchWithTimeout(url) is started
               /\ lastCheck' = Check(u, FALSE, TRUE)
               /\ loader' = [loader EXCEPT ![i].pc = "awaitFetch"]
               /\ UNCHANGED <<processedUrlLoads, sawBackoffSkip>>
       /\ UNCHANGED <<now, recentlyRemovedUrls, failedUrlAt, loaderCalls, netDelivered,
                      lastFailure, loaderOthers>>

\* a fetch whose failures leave no trace
FetchDoneUnrecorded(i, outcome, data) ==
    /\ loader[i].pc = "awaitFetch"
    /\ IF outcome = "valid"
       THEN loader' = [loader EXCEPT ![i] = [pc |-> "awaitCacheWrite", url |-> loader[i].url,
                                             data |-> data]]
       ELSE loader' = [loader EXCEPT ![i] = Idle]
    /\ UNCHANGED <<failedUrlAt, lastFailure, now, processedUrlLoads, recentlyRemovedUrls,
                   urlCache, loaderCalls, netDelivered, sawBackoffSkip, lastCheck,
                   loaderOthers>>

\* the fetch settled (response, body text, parse and validation): every outcome
\* but a valid catalog records the failure time
FetchDone(i, outcome, data) ==
    LET u == loader[i].url
    IN /\ loader[i].pc = "awaitFetch"
       /\ IF outcome = "valid"
          THEN \* await cacheUrlData(url, json)
               /\ loader' = [loader EXCEPT ![i] = [pc |-> "awaitCacheWrite", url |-> u,
                                                   data |-> data]]
               /\ UNCHANGED <<failedUrlAt, lastFailure>>
          ELSE /\ failedUrlAt' = [failedUrlAt EXCEPT ![u] = now]
               /\ lastFailure' = [lastFailure EXCEPT ![u] = now]
               /\ loader' = [loader EXCEPT ![i] = Idle]
       /\ UNCHANGED <<now, processedUrlLoads, recentlyRemovedUrls, urlCache, loaderCalls,
                      netDelivered, sawBackoffSkip, lastCheck, loaderOthers>>

\* cacheUrlData resolved: processedUrlLoads.add(url); callbacks.onAddData(json, url)
CacheWriteDone(i, writable) ==
    LET u == loader[i].url
    IN /\ loader[i].pc = "awaitCacheWrite"
       /\ urlCache' = CacheUrlData(urlCache, u, loader[i].data, now, writable)
       /\ processedUrlLoads' = processedUrlLoads \cup {u}
       /\ netDelivered' = [netDelivered EXCEPT ![u] = @ + 1]
       /\ loader' = [loader EXCEPT ![i] = Idle]
       /\ UNCHANGED <<now, recentlyRemovedUrls, failedUrlAt, loaderCalls, lastFailure,
                      sawBackoffSkip, lastCheck, loaderOthers>>

\* markSourceAsRemoved(sourceName, url)
MarkSourceAsRemoved(u) ==
    /\ recentlyRemovedUrls' = recentlyRemovedUrls \cup {UrlKey(u), NameKey(u)}
    /\ processedUrlLoads' = processedUrlLoads \cup {u}
    /\ UNCHANGED <<now, failedUrlAt, urlCache, loader, loaderCalls, netDelivered,
                   lastFailure, sawBackoffSkip, lastCheck, loaderOthers>>

\* time passes
Tick ==
    /\ now < StartMs + MaxTicks * TickMs
    /\ now' = now + TickMs
    /\ UNCHANGED <<processedUrlLoads, recentlyRemovedUrls, failedUrlAt, urlCache, loader,
                   loaderCalls, netDelivered, lastFailure, sawBackoffSkip, lastCheck,
                   loaderOthers>>

NoCheck == [url |-> 0, at |-> 0, fetched |-> FALSE, failedAt |-> 0, cached |-> FALSE,
            processed |-> FALSE, removed |-> FALSE]

LoaderInit ==
    /\ now = StartMs
    /\ processedUrlLoads = {}
    /\ recentlyRemovedUrls = {}
    /\ failedUrlAt = [u \in SourceUrls |-> 0]
    /\ urlCache = [u \in SourceUrls |-> NoEntry]
    /\ loader = [i \in Procs |-> Idle]
    /\ loaderCalls = 0
    /\ netDelivered = [u \in SourceUrls |-> 0]
    /\ lastFailure = [u \in SourceUrls |-> 0]
    /\ sawBackoffSkip = FALSE
    /\ lastCheck = NoCheck

(***************************************************************************)
(* The ingestion paths: what each hands to addGogData                      *)
(***************************************************************************)
MaxDownloads == 2

\* a parsed JSON value, as far as the shape checks can tell values apart
FieldKinds == {"string", "undefined"}
NameKinds == {"undefined", "emptyString", "string", "number"}

ObjectElements ==
    [type : {"object"}, title : FieldKinds, fileSize : FieldKinds, uploadDate : FieldKinds,
     uris : {"array", "undefined"}, source : {"undefined"}]

\* what spreading a value that is not an object leaves: no own properties
EmptyObject ==
    [type |-> "object", title |-> "undefined", fileSize |-> "undefined",
     uploadDate |-> "undefined", uris |-> "undefined", source |-> "undefined"]

Elements == ObjectElements \cup {[EmptyObject EXCEPT !.type = t] : t \in {"null", "number"}}

SeqUpTo(S, n) == UNION {[1..k -> S] : k \in 0..n}

NoDownloads == [kind |-> "undefined", elems |-> <<>>]

DownloadsValues ==
    {NoDownloads, [kind |-> "object", elems |-> <<>>]}
        \cup {[kind |-> "array", elems |-> e] : e \in SeqUpTo(Elements, MaxDownloads)}

ParsedPayloads ==
    [kind : {"object"}, name : NameKinds, downloads : DownloadsValues]
        \cup {[kind |-> k, name |-> "undefined", downloads |-> NoDownloads] :
                  k \in {"null", "number"}}

IsString(kind) == kind \in {"string", "emptyString"}
NameTruthy(kind) == kind \in {"string", "number"}

\* isValidGogData(json)
ValidElement(dl) ==
    /\ dl.type = "object"
    /\ dl.title = "string"
    /\ dl.fileSize = "string"
    /\ dl.uploadDate = "string"
    /\ dl.uris = "array"
IsValidGogData(json) ==
    /\ json.kind = "object"
    /\ IsString(json.name)
    /\ json.downloads.kind = "array"
    /\ \A i \in DOMAIN json.downloads.elems : ValidElement(json.downloads.elems[i])

\* json.name && json.downloads && Array.isArray(json.downloads); reading .name of null throws
DialogCheck(json) ==
    /\ json.kind # "null"
    /\ NameTruthy(json.name)
    /\ json.downloads.kind = "array"

\* !(!parsed || typeof parsed.name !== 'string' || !Array.isArray(parsed.downloads))
RetryCheck(json) ==
    /\ json.kind # "null"
    /\ IsString(json.name)
    /\ json.downloads.kind = "array"

\* { ...dl, source: <source> }
WithSource(dl, sourceKind) ==
    [(IF dl.type = "object" THEN dl ELSE EmptyObject) EXCEPT !.source = sourceKind]

\* { ...json, downloads: json.downloads.map((dl) => ({ ...dl, source })) }
MapSource(json, sourceKind) ==
    [json EXCEPT !.downloads.elems =
        [i \in DOMAIN json.downloads.elems |-> WithSource(json.downloads.elems[i], sourceKind)]]

\* processGogData(json): source is json.name
ProcessGogData(json) == MapSource(json, IF IsString(json.name) THEN "string" ELSE json.name)

Ingested(path, data) == [path |-> path, accepted |-> TRUE, data |-> data]
Rejected(path, json) == [path |-> path, accepted |-> FALSE, data |-> json]

\* the dialog's file tab: reader.onload with the file's parsed content
HandleFileChange ==
    /\ lastIngest' = IF DialogCheck(parsed)
                     THEN Ingested("fileTab", MapSource(parsed, parsed.name))
                     ELSE Rejected("fileTab", parsed)
    /\ UNCHANGED <<parsed, ingestOthers>>

\* the dialog's URL tab: the source of every record is `${json.name} (URL)`
HandleUrlLoad ==
    /\ lastIngest' = IF DialogCheck(parsed)
                     THEN Ingested("urlTab", MapSource(parsed, "string"))
                     ELSE Rejected("urlTab", parsed)
    /\ UNCHANGED <<parsed, ingestOthers>>

\* loadSingleSource validates the fetched catalog, then calls onAddData: the initial
\* load adds processGogData(json), the periodic refresh adds json itself
LoadSingleSourceDelivers(periodic) ==
    /\ lastIngest' = IF IsValidGogData(parsed)
                     THEN Ingested("loadSingleSource",
                                   IF periodic THEN parsed ELSE ProcessGogData(parsed))
                     ELSE Rejected("loadSingleSource", parsed)
    /\ UNCHANGED <<parsed, ingestOthers>>

\* the page's reconciliation effect, fetching a saved URL source itself
ReconcileFetch ==
    /\ lastIngest' = IF IsValidGogData(parsed)
                     THEN Ingested("reconcile", ProcessGogData(parsed))
                     ELSE Rejected("reconcile", parsed)
    /\ UNCHANGED <<parsed, ingestOthers>>

\* the sources manager's manual retry
RetrySource ==
    /\ lastIngest' = IF RetryCheck(parsed)
                     THEN Ingested("retry", parsed)
                     ELSE Rejected("retry", parsed)
    /\ UNCHANGED <<parsed, ingestOthers>>

NoIngest == [path |-> "none", accepted |-> FALSE,
             data |-> [kind |-> "null", name |-> "undefined", downloads |-> NoDownloads]]

NoPayload == NoIngest.data

\* no payload has arrived
IngestInit == parsed = NoPayload /\ lastIngest = NoIngest

\* some payload has arrived, no path has run
IngestInitAny == parsed \in ParsedPayloads /\ lastIngest = NoIngest

(***************************************************************************)
(* processAndDeduplicateDownloads                                          *)
(***************************************************************************)
MaxCatalogs == 2
MaxCatalogDownloads == 2

\* strings are sequences of characters
Whitespace == {" "}
Wkeynhk == <<"W", "k", "e", "y", "n", "h", "k">>

Titles == {<<>>, <<" ">>, Wkeynhk, <<"a">>, <<"a", ":", "b">>}
UploadDates == {<<"c">>, <<"b", ":", "c">>}
\* catalog names; isValidGogData admits the empty string
DedupNames == {"", "A", "B"}

\* a display size: its first run of digits (NoNumber: none) and the unit it mentions
NoNumber == 0 - 1
EmptySize == [text |-> "", num |-> NoNumber, unit |-> ""]
FileSizes == {EmptySize,
              [text |-> "N/A", num |-> NoNumber, unit |-> ""],
              [text |-> "size", num |-> 2, unit |-> "KB"]}

\* parseFileSize(sizeStr)
ParseFileSize(sizeStr) ==
    IF sizeStr.text \in {"", "N/A"} THEN 0
    ELSE IF sizeStr.num = NoNumber THEN 0
    ELSE IF sizeStr.unit = "GB" THEN sizeStr.num * 1024 * 1024 * 1024
    ELSE IF sizeStr.unit = "MB" THEN sizeStr.num * 1024 * 1024
    ELSE IF sizeStr.unit = "KB" THEN sizeStr.num * 1024
    ELSE sizeStr.num

\* String.prototype.trim
RECURSIVE TrimStart(_)
TrimStart(str) ==
    IF str # <<>> /\ Head(str) \in Whitespace THEN TrimStart(Tail(str)) ELSE str
RECURSIVE TrimEnd(_)
TrimEnd(str) ==
    IF str # <<>> /\ str[Len(str)] \in Whitespace
    THEN TrimEnd(SubSeq(str, 1, Len(str) - 1)) ELSE str
Trim(str) == TrimEnd(TrimStart(str))

\* !dl?.title?.trim() || dl.title === "Wkeynhk"
InvalidTitle(dl) == Trim(dl.title) = <<>> \/ dl.title = Wkeynhk

\* `${dl.title}:${dl.uploadDate}`
DedupKey(dl) == dl.title \o <<":">> \o dl.uploadDate

\* a filter that keeps every record with a valid title
KeepDownloadAlways(dl, processed) == ~InvalidTitle(dl)

\* the filter callback: whether dl is kept, given the keys seen so far
KeepDownload(dl, processed) == ~InvalidTitle(dl) /\ DedupKey(dl) \notin processed

\* the map callback
Stamp(dl, gog) ==
    [title |-> dl.title, uploadDate |-> dl.uploadDate, fileSize |-> dl.fileSize,
     uris |-> dl.uris, source |-> gog.name,
     fileSizeBytes |-> ParseFileSize(IF dl.fileSize.text = "" THEN EmptySize ELSE dl.fileSize)]

\* gog.downloads.filter(...).map(...) from position i on: the records and the key set
RECURSIVE FilterCatalog(_, _, _)
FilterCatalog(gog, i, processed) ==
    IF i > Len(gog.downloads) THEN [results |-> <<>>, processed |-> processed]
    ELSE LET dl == gog.downloads[i]
             keep == KeepDownload(dl, processed)
             rest == FilterCatalog(gog, i + 1,
                                   IF keep THEN processed \cup {DedupKey(dl)} ELSE processed)
         IN [results |-> (IF keep THEN <<Stamp(dl, gog)>> ELSE <<>>) \o rest.results,
             processed |-> rest.processed]

\* gogs.flatMap(...) from catalog g on
RECURSIVE FlatMapCatalogs(_, _, _)
FlatMapCatalogs(list, g, processed) ==
    IF g > Len(list) THEN <<>>
    ELSE IF list[g].name = "" THEN FlatMapCatalogs(list, g + 1, processed)
    ELSE LET filtered == FilterCatalog(list[g], 1, processed)
         IN filtered.results \o FlatMapCatalogs(list, g + 1, filtered.processed)

ProcessAndDeduplicateDownloads(list) == FlatMapCatalogs(list, 1, {})

\* the page's deduplication stage
Deduplicate ==
    /\ dedupRan' = TRUE
    /\ dedupResults' = ProcessAndDeduplicateDownloads(gogs)
    /\ UNCHANGED <<gogs, dedupOthers>>

\* the catalogs of every input: record i of catalog g carries uris <<g, i>>
Catalog(g, name, pairs, size) ==
    [name |-> name,
     downloads |-> [i \in DOMAIN pairs |->
                       [title |-> pairs[i][1], uploadDate |-> pairs[i][2],
                        fileSize |-> size, uris |-> <<g, i>>]]]

\* no catalogs, nothing run
DedupInit == gogs = <<>> /\ dedupRan = FALSE /\ dedupResults = <<>>

\* every bounded list of catalogs, nothing run
DedupInitAny ==
    /\ \E n \in 0..MaxCatalogs :
       \E names \in [1..n -> DedupNames] :
       \E pairs \in [1..n -> SeqUpTo(Titles \X UploadDates, MaxCatalogDownloads)] :
       \E size \in FileSizes :
           gogs = [g \in 1..n |-> Catalog(g, names[g], pairs[g], size)]
    /\ dedupRan = FALSE
    /\ dedupResults = <<>>

(***************************************************************************)
(* The search engine: normalizeText, the search helpers and filterResults  *)
(***************************************************************************)
NumSearchRecords == 3
MaxSearchList == 2

LowerLetters == <<"a", "b", "c", "d", "e", "f", "g", "h", "i", "j", "k", "l", "m", "n", "o", "p", "q", "r", "s", "t", "u", "v", "w", "x", "y", "z">>
UpperLetters == <<"A", "B", "C", "D", "E", "F", "G", "H", "I", "J", "K", "L", "M", "N", "O", "P", "Q", "R", "S", "T", "U", "V", "W", "X", "Y", "Z">>
DigitChars == <<"0", "1", "2", "3", "4", "5", "6", "7", "8", "9">>
AsciiLetters == Range(LowerLetters) \cup Range(UpperLetters)
\* what toLowerCase changes: the upper-case letter -> its lower-case letter
LowerCaseOf == [c \in Range(UpperLetters) |->
                   LowerLetters[CHOOSE i \in DOMAIN UpperLetters : UpperLetters[i] = c]]
Quote == "\""

\* letters outside ASCII are written by code point
OtherLetters == {
    "U+00E3", "U+00E7", "U+00E9", "U+00EA", "U+00F3", "U+0430", "U+0431", "U+0432", "U+0433",
    "U+0434", "U+0435", "U+0436", "U+0437", "U+0438", "U+0439", "U+043A", "U+043B", "U+043C",
    "U+043D", "U+043E", "U+043F", "U+0440", "U+0441", "U+0442", "U+0443", "U+0445", "U+0447",
    "U+0448", "U+0449", "U+044B", "U+044C", "U+044D", "U+044F"}

\* normalize("NFD") followed by the removal of the combining marks U+0300-U+036F
NfdBase ==
    "U+00E3" :> "a" @@ "U+00E7" :> "c" @@ "U+00E9" :> "e" @@ "U+00EA" :> "e" @@
    "U+00F3" :> "o" @@ "U+0439" :> "U+0438"

DEFAULT_STOPWORDS == {
    <<"t", "h", "e">>, <<"a">>, <<"a", "n">>, <<"a", "n", "d">>, <<"o", "r">>,
    <<"b", "u", "t">>, <<"i", "f">>, <<"e", "l", "s", "e">>, <<"w", "h", "i", "l", "e">>,
    <<"f", "o", "r">>, <<"t", "o">>, <<"o", "f">>, <<"i", "n">>, <<"o", "n">>, <<"a", "t">>,
    <<"b", "y">>, <<"f", "r", "o", "m">>, <<"w", "i", "t", "h">>,
    <<"w", "i", "t", "h", "o", "u", "t">>, <<"u", "p">>, <<"d", "o", "w", "n">>, <<"i", "s">>,
    <<"a", "m">>, <<"a", "r", "e">>, <<"w", "a", "s">>, <<"w", "e", "r", "e">>, <<"b", "e">>,
    <<"b", "e", "e", "n">>, <<"b", "e", "i", "n", "g">>, <<"h", "a", "v", "e">>,
    <<"h", "a", "s">>, <<"h", "a", "d">>, <<"d", "o">>, <<"d", "o", "e", "s">>,
    <<"d", "i", "d">>, <<"w", "i", "l", "l">>, <<"w", "o", "u", "l", "d">>,
    <<"s", "h", "o", "u", "l", "d">>, <<"c", "o", "u", "l", "d">>, <<"c", "a", "n">>,
    <<"m", "a", "y">>, <<"m", "i", "g", "h", "t">>, <<"m", "u", "s", "t">>,
    <<"s", "h", "a", "l", "l">>, <<"i">>, <<"y", "o", "u">>, <<"h", "e">>, <<"s", "h", "e">>,
    <<"i", "t">>, <<"w", "e">>, <<"t", "h", "e", "y">>, <<"m", "e">>, <<"h", "i", "m">>,
    <<"h", "e", "r">>, <<"u", "s">>, <<"t", "h", "e", "m">>, <<"m", "y">>,
    <<"y", "o", "u", "r">>, <<"h", "i", "s">>, <<"i", "t", "s">>, <<"o", "u", "r">>,
    <<"t", "h", "e", "i", "r">>, <<"t", "h", "i", "s">>, <<"t", "h", "a", "t">>,
    <<"t", "h", "e", "s", "e">>, <<"t", "h", "o", "s", "e">>, <<"w", "h", "a", "t">>,
    <<"w", "h", "i", "c", "h">>, <<"w", "h", "o">>, <<"w", "h", "o", "m">>, <<"w", "h", "y">>,
    <<"h", "o", "w">>, <<"a", "s">>, <<"t", "h", "a", "n">>, <<"i", "n", "t", "o">>,
    <<"t", "h", "r", "o", "u", "g", "h">>, <<"d", "u", "r", "i", "n", "g">>,
    <<"b", "e", "f", "o", "r", "e">>, <<"a", "f", "t", "e", "r">>, <<"a", "b", "o", "v", "e">>,
    <<"b", "e", "l", "o", "w">>, <<"b", "e", "t", "w", "e", "e", "n">>,
    <<"u", "n", "d", "e", "r">>, <<"o", "v", "e", "r">>, <<"o", "u", "t">>, <<"o", "f", "f">>,
    <<"a", "b", "o", "u", "t">>, <<"a", "g", "a", "i", "n", "s", "t">>,
    <<"a", "l", "o", "n", "g">>, <<"a", "r", "o", "u", "n", "d">>, <<"s", "u", "c", "h">>,
    <<"s", "o">>, <<"s", "o", "m", "e">>, <<"n", "o">>, <<"n", "o", "t">>,
    <<"o", "n", "l", "y">>, <<"j", "u", "s", "t">>, <<"v", "e", "r", "y">>, <<"t", "o", "o">>,
    <<"a", "l", "l">>, <<"e", "a", "c", "h">>, <<"o">>, <<"o", "s">>, <<"u", "m">>,
    <<"u", "m", "a">>, <<"u", "n", "s">>, <<"u", "m", "a", "s">>, <<"d", "e">>, <<"d", "a">>,
    <<"d", "o", "s">>, <<"d", "a", "s">>, <<"e">>, <<"o", "u">>, <<"m", "a", "i", "s">>,
    <<"m", "e", "n", "o", "s">>, <<"e", "m">>, <<"n", "a">>, <<"n", "o", "s">>,
    <<"n", "a", "s">>, <<"p", "o", "r">>, <<"p", "a", "r", "a">>, <<"c", "o", "m">>,
    <<"s", "e", "m">>, <<"U+00E9">>, <<"s", "U+00E3", "o">>, <<"e", "r", "a">>,
    <<"e", "r", "a", "m">>, <<"f", "o", "i">>, <<"f", "o", "r", "a", "m">>, <<"s", "e", "r">>,
    <<"e", "s", "t", "a", "r">>, <<"t", "e", "m">>, <<"t", "U+00EA", "m">>,
    <<"t", "i", "n", "h", "a">>, <<"t", "i", "n", "h", "a", "m">>, <<"t", "e", "v", "e">>,
    <<"t", "i", "v", "e", "r", "a", "m">>, <<"t", "e", "r">>, <<"e", "u">>, <<"t", "u">>,
    <<"v", "o", "c", "U+00EA">>, <<"e", "l", "e">>, <<"e", "l", "a">>, <<"n", "U+00F3", "s">>,
    <<"v", "U+00F3", "s">>, <<"e", "l", "e", "s">>, <<"e", "l", "a", "s">>, <<"t", "e">>,
    <<"s", "e">>, <<"l", "h", "e">>, <<"v", "o", "s">>, <<"l", "h", "e", "s">>,
    <<"m", "e", "u">>, <<"t", "e", "u">>, <<"s", "e", "u">>, <<"n", "o", "s", "s", "o">>,
    <<"v", "o", "s", "s", "o">>, <<"d", "e", "l", "e">>, <<"d", "e", "l", "a">>,
    <<"e", "s", "t", "e">>, <<"e", "s", "s", "e">>, <<"a", "q", "u", "e", "l", "e">>,
    <<"e", "s", "s", "a">>, <<"a", "q", "u", "e", "l", "a">>, <<"q", "u", "e">>,
    <<"q", "u", "a", "l">>, <<"q", "u", "a", "i", "s">>, <<"q", "u", "a", "n", "t", "o">>,
    <<"q", "u", "a", "n", "t", "o", "s">>, <<"q", "u", "a", "n", "t", "a">>,
    <<"q", "u", "a", "n", "t", "a", "s">>, <<"c", "o", "m", "o">>,
    <<"q", "u", "a", "n", "d", "o">>, <<"o", "n", "d", "e">>,
    <<"p", "o", "r", "q", "u", "U+00EA">>, <<"p", "o", "r", "q", "u", "e">>,
    <<"n", "U+00E3", "o">>, <<"s", "i", "m">>, <<"t", "a", "l", "v", "e", "z">>,
    <<"a", "p", "e", "n", "a", "s">>, <<"s", "U+00F3">>, <<"s", "o", "m", "e", "n", "t", "e">>,
    <<"m", "u", "i", "t", "o">>, <<"t", "o", "d", "o">>, <<"t", "o", "d", "a">>, <<"U+0438">>,
    <<"U+0432">>, <<"U+0432", "U+043E">>, <<"U+043D", "U+0435">>,
    <<"U+0447", "U+0442", "U+043E">>, <<"U+043E", "U+043D">>, <<"U+043D", "U+0430">>,
    <<"U+044F">>, <<"U+0441">>, <<"U+0441", "U+043E">>, <<"U+0430">>, <<"U+0442", "U+043E">>,
    <<"U+0432", "U+0441", "U+0435">>, <<"U+043E", "U+043D", "U+0430">>,
    <<"U+0442", "U+0430", "U+043A">>, <<"U+0435", "U+0433", "U+043E">>, <<"U+043D", "U+043E">>,
    <<"U+0434", "U+0430">>, <<"U+0442", "U+044B">>, <<"U+043A">>, <<"U+0443">>,
    <<"U+0436", "U+0435">>, <<"U+0432", "U+044B">>, <<"U+0437", "U+0430">>,
    <<"U+0431", "U+044B">>, <<"U+043F", "U+043E">>,
    <<"U+0442", "U+043E", "U+043B", "U+044C", "U+043A", "U+043E">>, <<"U+0435", "U+0435">>,
    <<"U+043C", "U+043E", "U+0436", "U+0435", "U+0442">>, <<"U+043E", "U+043D", "U+0438">>,
    <<"U+0438", "U+0437">>, <<"U+0435", "U+043C", "U+0443">>, <<"U+0435", "U+0449", "U+0435">>,
    <<"U+043D", "U+0435", "U+0442">>, <<"U+043E", "U+0442">>, <<"U+043D", "U+0438">>,
    <<"U+0431", "U+044B", "U+0442", "U+044C">>, <<"U+0436">>, <<"U+0432", "U+043E", "U+0442">>,
    <<"U+0432", "U+0435", "U+0434", "U+044C">>, <<"U+0442", "U+0430", "U+043C">>,
    <<"U+0442", "U+0435", "U+043C">>, <<"U+0447", "U+0435", "U+043C">>,
    <<"U+0441", "U+0435", "U+0431", "U+044F">>,
    <<"U+043D", "U+0438", "U+0447", "U+0435", "U+0433", "U+043E">>, <<"U+0435", "U+0439">>,
    <<"U+0442", "U+043E", "U+0442">>, <<"U+0434", "U+043B", "U+044F">>,
    <<"U+043F", "U+043E", "U+0442", "U+043E", "U+043C">>,
    <<"U+0441", "U+0435", "U+0431", "U+0435">>, <<"U+044D", "U+0442", "U+043E", "U+0442">>,
    <<"U+043A", "U+0430", "U+043A", "U+0430", "U+044F">>,
    <<"U+043C", "U+043D", "U+043E", "U+0433", "U+043E">>,
    <<"U+0440", "U+0430", "U+0437", "U+0432", "U+0435">>, <<"U+0442", "U+0440", "U+0438">>,
    <<"U+044D", "U+0442", "U+0443">>, <<"U+043C", "U+043E", "U+044F">>,
    <<"U+0432", "U+043F", "U+0440", "U+043E", "U+0447", "U+0435", "U+043C">>,
    <<"U+0445", "U+043E", "U+0442", "U+044C">>,
    <<"U+043F", "U+043E", "U+0441", "U+043B", "U+0435">>, <<"U+043D", "U+0430", "U+0434">>,
    <<"U+0431", "U+043E", "U+043B", "U+044C", "U+0448", "U+0435">>,
    <<"U+0447", "U+0435", "U+0440", "U+0435", "U+0437">>, <<"U+044D", "U+0442", "U+0438">>,
    <<"U+043D", "U+0430", "U+0441">>, <<"U+043F", "U+0440", "U+043E">>,
    <<"U+0432", "U+0441", "U+0435", "U+0445">>, <<"U+043D", "U+0438", "U+0445">>}

\* SYNONYMS_MAP: the own keys and their lists
SYNONYMS_MAP == <<
    [key |-> <<"s", "k", "y", "r", "i", "m">>,
     synonyms |-> <<
        <<"e", "l", "d", "e", "r", " ", "s", "c", "r", "o", "l", "l", "s">>,
        <<"t", "e", "s", " ", "5">>, <<"t", "e", "s", "v">>,
        <<"t", "h", "e", " ", "e", "l", "d", "e", "r", " ", "s", "c", "r", "o", "l", "l", "s", " ", "v">>>>],
    [key |-> <<"w", "i", "t", "c", "h", "e", "r">>,
     synonyms |-> <<
        <<"t", "h", "e", " ", "w", "i", "t", "c", "h", "e", "r", " ", "3">>, <<"t", "w", "3">>,
        <<"c", "d", "p", "r">>>>],
    [key |-> <<"g", "t", "a">>,
     synonyms |-> <<
        <<"g", "r", "a", "n", "d", " ", "t", "h", "e", "f", "t", " ", "a", "u", "t", "o">>,
        <<"r", "o", "c", "k", "s", "t", "a", "r", " ", "g", "a", "m", "e", "s">>>>],
    [key |-> <<"m", "i", "n", "e", "c", "r", "a", "f", "t">>,
     synonyms |-> <<
        <<"m", "c">>, <<"m", "o", "j", "a", "n", "g">>>>],
    [key |-> <<"v", "a", "l", "o", "r", "a", "n", "t">>,
     synonyms |-> <<
        <<"r", "i", "o", "t", " ", "g", "a", "m", "e", "s">>,
        <<"t", "a", "c", "t", "i", "c", "a", "l", " ", "s", "h", "o", "o", "t", "e", "r">>>>],
    [key |-> <<"r", "p", "g">>,
     synonyms |-> <<
        <<"r", "o", "l", "e", " ", "p", "l", "a", "y", "i", "n", "g", " ", "g", "a", "m", "e">>,
        <<"r", "o", "l", "e", "p", "l", "a", "y">>, <<"c", "h", "a", "r", "a", "c", "t", "e", "r">>>>],
    [key |-> <<"f", "p", "s">>,
     synonyms |-> <<
        <<"f", "i", "r", "s", "t", " ", "p", "e", "r", "s", "o", "n", " ", "s", "h", "o", "o", "t", "e", "r">>,
        <<"s", "h", "o", "o", "t", "e", "r">>>>],
    [key |-> <<"m", "o", "b", "a">>,
     synonyms |-> <<
        <<"m", "u", "l", "t", "i", "p", "l", "a", "y", "e", "r", " ", "o", "n", "l", "i", "n", "e", " ", "b", "a", "t", "t", "l", "e", " ", "a", "r", "e", "n", "a">>>>],
    [key |-> <<"m", "m", "o">>,
     synonyms |-> <<
        <<"m", "a", "s", "s", "i", "v", "e", "l", "y", " ", "m", "u", "l", "t", "i", "p", "l", "a", "y", "e", "r", " ", "o", "n", "l", "i", "n", "e">>>>],
    [key |-> <<"p", "c">>,
     synonyms |-> <<
        <<"w", "i", "n", "d", "o", "w", "s">>, <<"s", "t", "e", "a", "m">>,
        <<"p", "c", " ", "g", "a", "m", "e">>>>],
    [key |-> <<"c", "o", "n", "s", "o", "l", "e">>,
     synonyms |-> <<
        <<"x", "b", "o", "x">>, <<"p", "l", "a", "y", "s", "t", "a", "t", "i", "o", "n">>,
        <<"p", "s">>>>],
    [key |-> <<"m", "o", "b", "i", "l", "e">>,
     synonyms |-> <<
        <<"a", "n", "d", "r", "o", "i", "d">>, <<"i", "o", "s">>,
        <<"s", "m", "a", "r", "t", "p", "h", "o", "n", "e">>>>],
    [key |-> <<"r", "e", "m", "a", "s", "t", "e", "r">>,
     synonyms |-> <<
        <<"r", "e", "m", "a", "k", "e">>, <<"h", "d">>,
        <<"e", "n", "h", "a", "n", "c", "e", "d", " ", "e", "d", "i", "t", "i", "o", "n">>,
        <<"d", "e", "l", "u", "x", "e">>>>],
    [key |-> <<"m", "o", "d">>,
     synonyms |-> <<
        <<"m", "o", "d", "i", "f", "i", "c", "a", "t", "i", "o", "n">>,
        <<"m", "o", "d", "p", "a", "c", "k">>, <<"a", "d", "d", "o", "n">>>>],
    [key |-> <<"d", "l", "c">>,
     synonyms |-> <<
        <<"e", "x", "p", "a", "n", "s", "i", "o", "n">>,
        <<"c", "o", "n", "t", "e", "n", "t", " ", "p", "a", "c", "k">>,
        <<"s", "e", "a", "s", "o", "n", " ", "p", "a", "s", "s">>>>],
    [key |-> <<"j", "o", "g", "o">>,
     synonyms |-> <<
        <<"g", "a", "m", "e">>, <<"v", "i", "d", "e", "o", "g", "a", "m", "e">>>>],
    [key |-> <<"e", "d", "i", "U+00E7", "U+00E3", "o">>,
     synonyms |-> <<
        <<"v", "e", "r", "s", "i", "o", "n">>, <<"b", "u", "i", "l", "d">>,
        <<"e", "d", "i", "t", "i", "o", "n">>>>],
    [key |-> <<"c", "o", "m", "p", "l", "e", "t", "o">>,
     synonyms |-> <<
        <<"c", "o", "m", "p", "l", "e", "t", "e">>, <<"f", "u", "l", "l">>,
        <<"b", "u", "n", "d", "l", "e", "d">>>>]
>>

\* String.prototype.toLowerCase, per character
ToLowerCase(c) == IF c \in DOMAIN LowerCaseOf THEN LowerCaseOf[c] ELSE c
LowerString(str) == [i \in DOMAIN str |-> ToLowerCase(str[i])]

StripAccent(c) == IF c \in DOMAIN NfdBase THEN NfdBase[c] ELSE c

\* \p{L} or \p{N}
LettersAndNumbers == AsciiLetters \cup Range(DigitChars) \cup OtherLetters
IsLetterOrNumber(c) == c \in LettersAndNumbers
\* \w
WordChars == AsciiLetters \cup Range(DigitChars) \cup {"_"}
IsWordChar(c) == c \in WordChars

\* replace(/\s+/g, " ")
RECURSIVE CollapseSpaces(_)
CollapseSpaces(str) ==
    IF str = <<>> THEN <<>>
    ELSE IF Head(str) \in Whitespace THEN <<" ">> \o CollapseSpaces(TrimStart(Tail(str)))
    ELSE <<Head(str)>> \o CollapseSpaces(Tail(str))

\* normalizeText(text)
NormalizeText(text) ==
    IF text = <<>> THEN <<>>
    ELSE LET lowered == [i \in DOMAIN text |-> StripAccent(ToLowerCase(text[i]))]
             spaced == [i \in DOMAIN text |->
                           IF lowered[i] \in {"_", "-"} THEN " " ELSE lowered[i]]
             kept == SelectSeq(spaced, LAMBDA c : IsLetterOrNumber(c) \/ c \in Whitespace)
         IN Trim(CollapseSpaces(kept))

\* the index after the first word of a string that starts with one
WordEnd(str) ==
    IF \E i \in DOMAIN str : str[i] \in Whitespace
    THEN CHOOSE i \in DOMAIN str :
             str[i] \in Whitespace /\ \A j \in 1..(i - 1) : str[j] \notin Whitespace
    ELSE Len(str) + 1

\* split(/\s+/).filter((w) => w.length > 0)
RECURSIVE SplitWords(_)
SplitWords(str) ==
    LET s == TrimStart(str)
    IN IF s = <<>> THEN <<>>
       ELSE <<SubSeq(s, 1, WordEnd(s) - 1)>> \o SplitWords(SubSeq(s, WordEnd(s), Len(s)))

\* String.prototype.includes / startsWith
Includes(text, term) ==
    \E p \in 1..(Len(text) - Len(term) + 1) : SubSeq(text, p, p + Len(term) - 1) = term
StartsWith(text, term) == Len(term) <= Len(text) /\ SubSeq(text, 1, Len(term)) = term

\* \b between text[k - 1] and text[k]
WordBoundary(text, k) ==
    ((k - 1) \in DOMAIN text /\ IsWordChar(text[k - 1]))
        # (k \in DOMAIN text /\ IsWordChar(text[k]))

\* new RegExp(`\\b${term}\\b`, 'i').test(text), for a term of letters, digits and spaces
TestWordBoundary(text, term) ==
    \E p \in 1..(Len(text) - Len(term) + 1) :
        /\ LowerString(SubSeq(text, p, p + Len(term) - 1)) = LowerString(term)
        /\ WordBoundary(text, p)
        /\ WordBoundary(text, p + Len(term))

\* the next double quote after position i (0: none)
NextQuote(query, i) ==
    IF \E j \in (i + 1)..Len(query) : query[j] = Quote
    THEN CHOOSE j \in (i + 1)..Len(query) :
             query[j] = Quote /\ \A k \in (i + 1)..(j - 1) : query[k] # Quote
    ELSE 0

\* the matches of /"([^"]+)"/g from position i on, trimmed
RECURSIVE PhrasesFrom(_, _)
PhrasesFrom(query, i) ==
    IF i > Len(query) THEN <<>>
    ELSE IF query[i] # Quote THEN PhrasesFrom(query, i + 1)
    ELSE IF NextQuote(query, i) = 0 THEN <<>>
    ELSE IF NextQuote(query, i) = i + 1 THEN PhrasesFrom(query, i + 1)
    ELSE <<Trim(SubSeq(query, i + 1, NextQuote(query, i) - 1))>>
             \o PhrasesFrom(query, NextQuote(query, i) + 1)

\* query.replace(/"[^"]*"/g, "") from position i on
RECURSIVE RemoveQuoted(_, _)
RemoveQuoted(query, i) ==
    IF i > Len(query) THEN <<>>
    ELSE IF query[i] = Quote /\ NextQuote(query, i) # 0
    THEN RemoveQuoted(query, NextQuote(query, i) + 1)
    ELSE <<query[i]>> \o RemoveQuoted(query, i + 1)

\* extractExactPhrases(query)
ExtractExactPhrases(query) ==
    [exactPhrases |-> PhrasesFrom(query, 1), remainingQuery |-> Trim(RemoveQuoted(query, 1))]

\* checkExactPhrases(searchText, exactPhrases): lower case, no decomposition
CheckExactPhrases(text, exactPhrases) ==
    \A k \in DOMAIN exactPhrases : Includes(LowerString(text), LowerString(exactPhrases[k]))

\* Set insertion: append the items the sequence does not hold yet
RECURSIVE AddAll(_, _)
AddAll(acc, items) ==
    IF items = <<>> THEN acc
    ELSE AddAll(IF Head(items) \in Range(acc) THEN acc ELSE Append(acc, Head(items)),
                Tail(items))

\* SYNONYMS_MAP[term.toLowerCase()] for an own key (<<>>: none)
SynonymsOf(term) ==
    IF \E k \in DOMAIN SYNONYMS_MAP : SYNONYMS_MAP[k].key = LowerString(term)
    THEN SYNONYMS_MAP[CHOOSE k \in DOMAIN SYNONYMS_MAP :
                          SYNONYMS_MAP[k].key = LowerString(term)].synonyms
    ELSE <<>>

\* SYNONYMS_MAP is a plain object: the lookup of "constructor" finds the inherited
\* Object.prototype.constructor, which has no forEach, and the call throws a TypeError
InheritedKey == <<"c", "o", "n", "s", "t", "r", "u", "c", "t", "o", "r">>
LookupThrows(terms) == \E k \in DOMAIN terms : LowerString(terms[k]) = InheritedKey

RECURSIVE AddSynonyms(_, _)
AddSynonyms(acc, terms) ==
    IF terms = <<>> THEN acc
    ELSE AddSynonyms(AddAll(acc, SynonymsOf(Head(terms))), Tail(terms))

\* expandSearchTermsWithSynonyms(terms)
ExpandSearchTermsWithSynonyms(terms) == AddSynonyms(AddAll(<<>>, terms), terms)

\* an instant is a day since the epoch and the milliseconds into that day
MsPerDay == 1000 * 60 * 60 * 24

DigitValue(c) == (CHOOSE i \in DOMAIN DigitChars : DigitChars[i] = c) - 1
DigitSet == Range(DigitChars)
Number2(str, i) == 10 * DigitValue(str[i]) + DigitValue(str[i + 1])

IsLeapYear(y) == (y % 4 = 0 /\ y % 100 # 0) \/ y % 400 = 0
DaysInMonth(y, m) ==
    IF m = 2 THEN (IF IsLeapYear(y) THEN 29 ELSE 28)
    ELSE IF m \in {4, 6, 9, 11} THEN 30 ELSE 31

\* days from 1970-01-01 to the civil date y-m-d
DaysFromCivil(y, m, d) ==
    LET yy == IF m <= 2 THEN y - 1 ELSE y
        era == yy \div 400
        yoe == yy - era * 400
        mp == IF m > 2 THEN m - 3 ELSE m + 9
        doy == (153 * mp + 2) \div 5 + d - 1
        doe == yoe * 365 + yoe \div 4 - yoe \div 100 + doy
    IN era * 146097 + doe - 719468

\* a date-only ISO string YYYY-MM-DD
IsIsoDate(str) ==
    /\ Len(str) = 10
    /\ str[5] = "-" /\ str[8] = "-"
    /\ \A i \in {1, 2, 3, 4, 6, 7, 9, 10} : str[i] \in DigitSet
    /\ Number2(str, 6) \in 1..12
    /\ Number2(str, 9) >= 1
    /\ Number2(str, 9) <= DaysInMonth(100 * Number2(str, 1) + Number2(str, 3), Number2(str, 6))

NaN == [nan |-> TRUE, value |-> 0]
Num(n) == [nan |-> FALSE, value |-> n]

\* new Date(uploadDate).getTime(), as the day of a date-only ISO string (midnight UTC);
\* NaN for the other strings the model uses
UploadDay(uploadDate) ==
    IF IsIsoDate(uploadDate)
    THEN Num(DaysFromCivil(100 * Number2(uploadDate, 1) + Number2(uploadDate, 3),
                           Number2(uploadDate, 6), Number2(uploadDate, 9)))
    ELSE NaN

\* daysSinceUpload(uploadDate) at instant t: Math.floor((now - uploadTime) / MsPerDay)
DaysSinceUpload(uploadDate, t) ==
    IF UploadDay(uploadDate).nan THEN NaN
    ELSE Num((t.day - UploadDay(uploadDate).value) + (t.ms \div MsPerDay))

\* getRecencyBonus(uploadDate) at instant t: every comparison with NaN is false
GetRecencyBonus(uploadDate, t) ==
    LET days == DaysSinceUpload(uploadDate, t)
    IN IF days.nan THEN 0
       ELSE IF days.value <= 7 THEN 50
       ELSE IF days.value <= 30 THEN 30
       ELSE IF days.value <= 90 THEN 15
       ELSE IF days.value <= 180 THEN 5
       ELSE 0

\* scoreForTerm with short terms looked up as substrings
ScoreForTermBySubstring(term, searchText, words) ==
    IF Len(term) < 3
    THEN (IF Includes(searchText, term) THEN 40 ELSE 0)
    ELSE IF ~Includes(searchText, term) THEN 0
    ELSE IF TestWordBoundary(searchText, term) THEN 100
    ELSE IF \E k \in DOMAIN words : StartsWith(words[k], term) THEN 75
    ELSE 15

\* scoreForTerm(term), for an item's cached searchText and words
ScoreForTerm(term, searchText, words) ==
    IF Len(term) < 3
    THEN (IF TestWordBoundary(searchText, term) THEN 40 ELSE 0)
    ELSE IF ~Includes(searchText, term) THEN 0
    ELSE IF TestWordBoundary(searchText, term) THEN 100
    ELSE IF \E k \in DOMAIN words : StartsWith(words[k], term) THEN 75
    ELSE IF \E k \in DOMAIN words : Includes(words[k], term) /\ words[k] # term
    THEN LET substringWord ==
                 words[CHOOSE k \in DOMAIN words :
                           /\ Includes(words[k], term) /\ words[k] # term
                           /\ \A j \in 1..(k - 1) :
                                  ~(Includes(words[j], term) /\ words[j] # term)]
         IN \* ratio = term.length / substringWord.length against 0.6 and 0.4
            IF 10 * Len(term) > 6 * Len(substringWord) THEN 60
            ELSE IF 10 * Len(term) > 4 * Len(substringWord) THEN 45
            ELSE 25
    ELSE 15

\* the loop over searchTerms: [total, allMatched]
RECURSIVE ScoreTerms(_, _, _)
ScoreTerms(terms, searchText, words) ==
    IF terms = <<>> THEN [total |-> 0, allMatched |-> TRUE]
    ELSE LET s == ScoreForTerm(Head(terms), searchText, words)
             rest == ScoreTerms(Tail(terms), searchText, words)
         IN [total |-> s + rest.total, allMatched |-> s # 0 /\ rest.allMatched]

\* the loop over synonymTerms: Math.floor(s * 0.7) of every match
RECURSIVE ScoreSynonyms(_, _, _)
ScoreSynonyms(terms, searchText, words) ==
    IF terms = <<>> THEN 0
    ELSE (ScoreForTerm(Head(terms), searchText, words) * 7) \div 10
             + ScoreSynonyms(Tail(terms), searchText, words)

\* the search text of an item, computed afresh
ComputeSearchText(item) ==
    LET title == IF item.titleNormalized # <<>> THEN item.titleNormalized
                 ELSE NormalizeText(item.title)
        source == IF item.sourceNormalized # <<>> THEN item.sourceNormalized
                  ELSE NormalizeText(item.source)
        combined == Trim(CollapseSpaces(title \o <<" ">> \o source))
    IN [searchText |-> <<" ">> \o combined \o <<" ">>, words |-> SplitWords(combined)]

\* `${item.title}:${item.uploadDate || ""}`
PersistentKey(item) == item.title \o <<":">> \o item.uploadDate

SEARCH_CACHE_SIZE == 5000

\* a persistent entry is reused whenever its title and uploadDate are the item's
PersistentHit(item, persistent) ==
    /\ LruHas(persistent, PersistentKey(item))
    /\ persistent.cache[PersistentKey(item)].title = item.title
    /\ persistent.cache[PersistentKey(item)].uploadDate = item.uploadDate

\* the cache lookup of filterResults for one item:
\* [cached: searchText and words, weak, persistent: the caches afterwards]
CacheLookup(item, weak, persistent) ==
    IF item.id \in DOMAIN weak
    THEN [cached |-> weak[item.id], weak |-> weak, persistent |-> persistent]
    ELSE LET looked == LruGet(persistent, PersistentKey(item)).c
         IN IF PersistentHit(item, persistent)
            THEN LET cached == [searchText |-> persistent.cache[PersistentKey(item)].searchText,
                                words |-> persistent.cache[PersistentKey(item)].words]
                 IN [cached |-> cached, weak |-> MapSet(weak, item.id, cached),
                     persistent |-> looked]
            ELSE LET fresh == ComputeSearchText(item)
                 IN [cached |-> fresh, weak |-> MapSet(weak, item.id, fresh),
                     persistent |->
                         LruSet(looked, PersistentKey(item),
                                [searchText |-> fresh.searchText, words |-> fresh.words,
                                 title |-> item.title, uploadDate |-> item.uploadDate],
                                SEARCH_CACHE_SIZE, TRUE).c]

\* the text the exact phrases are looked up in
PhraseText(item) ==
    (IF item.titleNormalized # <<>> THEN item.titleNormalized ELSE NormalizeText(item.title))
        \o <<" ">>
        \o (IF item.sourceNormalized # <<>> THEN item.sourceNormalized
            ELSE NormalizeText(item.source))

\* an item the loop skips before scoring: no title, or an exact phrase is missing
SkippedUnscored(item, q) ==
    \/ item.title = <<>>
    \/ (q.exactPhrases # <<>> /\ ~CheckExactPhrases(PhraseText(item), q.exactPhrases))

\* totalScore: the recency bonus is added to a positive score only
TotalScore(matched, uploadDate, t) ==
    IF matched > 0 THEN matched + GetRecencyBonus(uploadDate, t) ELSE matched

\* the mode's skip rule for a scored item
SkippedScored(searchMode, allMatched, totalScore) ==
    \/ (searchMode = "all" /\ ~allMatched)
    \/ (searchMode = "any" /\ totalScore = 0)

\* what the loop pushes for one item: <<>> or one [item, score] entry
ScoredEntry(item, q, cached, t) ==
    LET own == ScoreTerms(q.searchTerms, cached.searchText, cached.words)
        totalScore == TotalScore(own.total + ScoreSynonyms(q.synonymTerms, cached.searchText,
                                                           cached.words),
                                 item.uploadDate, t)
    IN IF SkippedScored(q.searchMode, own.allMatched, totalScore) THEN <<>>
       ELSE <<[item |-> item, score |-> totalScore]>>

\* the entries of one item go before those of the items after it
PushScored(entry, rest) ==
    [scored |-> entry \o rest.scored, weak |-> rest.weak, persistent |-> rest.persistent]

\* the body of the loop over downloads, from item i on:
\* [scored: the pushed [item, score] entries, weak, persistent]
RECURSIVE FilterItems(_, _, _, _, _, _)
FilterItems(downloads, i, q, weak, persistent, t) ==
    IF i > Len(downloads) THEN [scored |-> <<>>, weak |-> weak, persistent |-> persistent]
    ELSE IF SkippedUnscored(downloads[i], q)
    THEN FilterItems(downloads, i + 1, q, weak, persistent, t)
    ELSE LET found == CacheLookup(downloads[i], weak, persistent)
         IN PushScored(ScoredEntry(downloads[i], q, found.cached, t),
                       FilterItems(downloads, i + 1, q, found.weak, found.persistent, t))

\* localeCompare of two lower-case strings: by character, in collation order
CollationOrder == <<" ", "_", "-", ":", "'", Quote>> \o DigitChars \o LowerLetters
CollationRanks == [c \in Range(CollationOrder) |->
                      CHOOSE i \in DOMAIN CollationOrder : CollationOrder[i] = c]
CollationRank(c) ==
    IF c \in DOMAIN CollationRanks THEN CollationRanks[c] ELSE Len(CollationOrder) + 1
RECURSIVE LocaleCompare(_, _)
LocaleCompare(a, b) ==
    IF a = <<>> /\ b = <<>> THEN 0
    ELSE IF a = <<>> THEN 0 - 1
    ELSE IF b = <<>> THEN 1
    ELSE IF CollationRank(Head(a)) < CollationRank(Head(b)) THEN 0 - 1
    ELSE IF CollationRank(Head(a)) > CollationRank(Head(b)) THEN 1
    ELSE LocaleCompare(Tail(a), Tail(b))

\* the sort comparator is negative: a goes before b
SortsBefore(a, b) ==
    IF b.score # a.score THEN b.score < a.score
    ELSE LocaleCompare(LowerString(a.item.title), LowerString(b.item.title)) < 0

\* Array.prototype.sort is stable: x goes before the first entry it sorts before
InsertSorted(sorted, x) ==
    IF \E k \in DOMAIN sorted : SortsBefore(x, sorted[k])
    THEN LET k == CHOOSE k \in DOMAIN sorted :
                      SortsBefore(x, sorted[k]) /\ \A j \in 1..(k - 1) : ~SortsBefore(x, sorted[j])
         IN SubSeq(sorted, 1, k - 1) \o <<x>> \o SubSeq(sorted, k, Len(sorted))
    ELSE Append(sorted, x)
RECURSIVE SortScored(_, _)
SortScored(sorted, scored) ==
    IF scored = <<>> THEN sorted
    ELSE SortScored(InsertSorted(sorted, Head(scored)), Tail(scored))

\* the identities of the records of a list
RecordIds(list) == [k \in DOMAIN list |-> list[k].id]
ScoredIds(scored) == [k \in DOMAIN scored |-> scored[k].item.id]

\* the query as filterResults prepares it
PrepareQuery(searchQuery, searchMode) ==
    LET extracted == ExtractExactPhrases(searchQuery)
        normalizedTerms == SplitWords(NormalizeText(extracted.remainingQuery))
        kept == SelectSeq(normalizedTerms, LAMBDA term : term \notin DEFAULT_STOPWORDS)
        searchTerms == IF kept = <<>> THEN normalizedTerms ELSE kept
        expandedSearchTerms == ExpandSearchTermsWithSynonyms(searchTerms)
    IN [exactPhrases |-> extracted.exactPhrases,
        searchTerms |-> searchTerms,
        synonymTerms |-> SelectSeq(expandedSearchTerms,
                                   LAMBDA term : term \notin Range(searchTerms)),
        searchMode |-> searchMode]

\* the return value once the loop is done: the scored entries sorted, as record ids
SortedResults(done) ==
    [threw |-> FALSE, results |-> ScoredIds(SortScored(<<>>, done.scored)),
     weak |-> done.weak, persistent |-> done.persistent]

\* filterResults from the prepared query on; the synonym lookup may throw
SearchPrepared(downloads, q, weak, persistent, t) ==
    IF LookupThrows(q.searchTerms)
    THEN [threw |-> TRUE, results |-> <<>>, weak |-> weak, persistent |-> persistent]
    ELSE SortedResults(FilterItems(downloads, 1, q, weak, persistent, t))

\* filterResults(downloads, searchQuery, searchMode) with the caches weak and persistent
\* at instant t: [threw, results: the records returned, weak, persistent]
FilterResults(downloads, searchQuery, searchMode, weak, persistent, t) ==
    IF Trim(searchQuery) = <<>>
    THEN [threw |-> FALSE, results |-> RecordIds(downloads), weak |-> weak,
          persistent |-> persistent]
    ELSE IF downloads = <<>>
    THEN [threw |-> FALSE, results |-> <<>>, weak |-> weak, persistent |-> persistent]
    ELSE SearchPrepared(downloads, PrepareQuery(searchQuery, searchMode), weak, persistent, t)

\* the records searched: 1 and 2 share title and uploadDate
SearchRecordTable == <<
    [id |-> 1, title |-> <<"G", "a", "m", "e">>, uploadDate |-> <<"2", "0", "2", "4", "-", "0", "6", "-", "1", "0">>, source |-> <<"a", "l", "p", "h", "a">>,
     titleNormalized |-> <<"g", "a", "m", "e">>, sourceNormalized |-> <<"a", "l", "p", "h", "a">>],
    [id |-> 2, title |-> <<"G", "a", "m", "e">>, uploadDate |-> <<"2", "0", "2", "4", "-", "0", "6", "-", "1", "0">>, source |-> <<"b", "e", "t", "a">>,
     titleNormalized |-> <<>>, sourceNormalized |-> <<>>],
    [id |-> 3, title |-> <<"E", "l", "d", "e", "r", " ", "S", "c", "r", "o", "l", "l", "s">>, uploadDate |-> <<"2", "0", "2", "3", "-", "0", "1", "-", "0", "1">>,
     source |-> <<"a", "l", "p", "h", "a">>, titleNormalized |-> <<"e", "l", "d", "e", "r", " ", "s", "c", "r", "o", "l", "l", "s">>,
     sourceNormalized |-> <<"a", "l", "p", "h", "a">>],
    [id |-> 4, title |-> <<"G", "a", "m", "e", "r", "'", "s", "-", "P", "a", "c", "k">>, uploadDate |-> <<>>, source |-> <<"b", "e", "t", "a">>,
     titleNormalized |-> <<>>, sourceNormalized |-> <<>>] >>
SearchRecords == {SearchRecordTable[i] : i \in 1..NumSearchRecords}

\* lists of distinct records
SearchLists ==
    {list \in SeqUpTo(SearchRecords, MaxSearchList) :
        \A i, j \in DOMAIN list : i # j => list[i] # list[j]}

SearchQueries == {
    <<"a", "l", "p", "h", "a">>, <<"b", "e", "t", "a">>, <<"g", "a", "m", "e">>, <<"g", "a">>, <<"t", "h", "e", " ", "G", "A", "M", "E">>, <<"s", "k", "y", "r", "i", "m">>,
    <<"\"", "g", "a", "m", "e", " ", "b", "e", "t", "a", "\"">>, <<"c", "o", "n", "s", "t", "r", "u", "c", "t", "o", "r">>, <<" ">>}
SearchModes == {"all", "any"}

\* 2024-06-15T12:00:00Z
SearchInstant == [day |-> DaysFromCivil(2024, 6, 15), ms |-> 12 * 60 * 60 * 1000]

\* what each call returns when both caches are empty
ColdResults ==
    [downloads \in SearchLists, searchQuery \in SearchQueries, searchMode \in SearchModes |->
        FilterResults(downloads, searchQuery, searchMode, <<>>, LruNew, SearchInstant)]

NoSearch == [threw |-> FALSE, results |-> <<>>, coldThrew |-> FALSE, cold |-> <<>>,
             called |-> FALSE, hit |-> FALSE]

\* a call reused a persistent entry for a record the WeakMap did not hold
ReusedPersistent(downloads, weakAfter) ==
    \E k \in DOMAIN downloads :
        /\ downloads[k].id \notin DOMAIN weakSearchCache
        /\ downloads[k].id \in DOMAIN weakAfter
        /\ PersistentHit(downloads[k], persistentSearchCache)

\* the call returns warm, where a call with empty caches returns cold
SearchReturns(downloads, warm, cold) ==
    /\ weakSearchCache' = warm.weak
    /\ persistentSearchCache' = warm.persistent
    /\ lastSearch' = [threw |-> warm.threw, results |-> warm.results,
                      coldThrew |-> cold.threw, cold |-> cold.results, called |-> TRUE,
                      hit |-> ReusedPersistent(downloads, warm.weak)]

\* filterResults is called
FilterResultsCall(downloads, searchQuery, searchMode) ==
    /\ SearchReturns(downloads,
                     FilterResults(downloads, searchQuery, searchMode, weakSearchCache,
                                   persistentSearchCache, today),
                     ColdResults[downloads, searchQuery, searchMode])
    /\ UNCHANGED <<today, searchOthers>>

\* a record object is garbage-collected: its WeakMap entry goes, and the next record
\* with these fields is a new object
RecordCollected(id) ==
    /\ id \in DOMAIN weakSearchCache
    /\ weakSearchCache' = MapDelete(weakSearchCache, id)
    /\ UNCHANGED <<persistentSearchCache, today, lastSearch, searchOthers>>

SearchInit ==
    /\ weakSearchCache = <<>>
    /\ persistentSearchCache = LruNew
    /\ today = SearchInstant
    /\ lastSearch = NoSearch

(***************************************************************************)
(* filterResults on a fixture catalog, called with the caches as the       *)
(* module creates them (search.ts and its tests).                          *)
(***************************************************************************)
MaxFixtureList == 2

\* records 1 and 5 share title and uploadDate; record 2 was uploaded in the last week
FixtureRecordTable == <<
    [id |-> 1, title |-> <<"S", "t", "a", "r", " ", "W", "a", "r", "s">>, uploadDate |-> <<"2", "0", "2", "0", "-", "0", "1", "-", "0", "3">>,
     source |-> <<"G", "O", "G">>, titleNormalized |-> <<>>, sourceNormalized |-> <<>>],
    [id |-> 2, title |-> <<"S", "e", "a", " ", "o", "f", " ", "S", "t", "a", "r", "s">>, uploadDate |-> <<"2", "0", "2", "4", "-", "0", "6", "-", "1", "2">>,
     source |-> <<"G", "O", "G">>, titleNormalized |-> <<>>, sourceNormalized |-> <<>>],
    [id |-> 3, title |-> <<"s", "t", "a", "r", " ", "t", "r", "e", "k">>, uploadDate |-> <<"2", "0", "2", "0", "-", "0", "1", "-", "0", "4">>,
     source |-> <<"G", "O", "G">>, titleNormalized |-> <<>>, sourceNormalized |-> <<>>],
    [id |-> 4, title |-> <<"S", "t", "e", "a", "m", " ", "C", "o", "n", "s", "t", "r", "u", "c", "t", "o", "r">>, uploadDate |-> <<"2", "0", "2", "0", "-", "0", "1", "-", "0", "1">>,
     source |-> <<"G", "O", "G">>, titleNormalized |-> <<>>, sourceNormalized |-> <<>>],
    [id |-> 5, title |-> <<"S", "t", "a", "r", " ", "W", "a", "r", "s">>, uploadDate |-> <<"2", "0", "2", "0", "-", "0", "1", "-", "0", "3">>,
     source |-> <<"p", "c">>, titleNormalized |-> <<>>, sourceNormalized |-> <<>>] >>
FixtureRecords == Range(FixtureRecordTable)

\* lists of distinct fixture records
FixtureLists ==
    {list \in SeqUpTo(FixtureRecords, MaxFixtureList) :
        \A i, j \in DOMAIN list : i # j => list[i] # list[j]}

FixtureQueries == {
    <<"s", "t", "a", "r">>, <<"s", "t">>, <<"p", "c">>, <<"o", "f">>, <<"c", "o", "n", "s", "t", "r", "u", "c", "t", "o", "r">>, <<"w", "a", "r", "s", " ", "s", "t", "a", "r">>,
    <<"\"", "o", "f", " ", "s", "t", "a", "r", "s", "\"", " ", "s", "e", "a">>}

NoSearchCall == [downloads |-> <<>>, searchQuery |-> <<>>, searchMode |-> "all",
                 called |-> FALSE, threw |-> FALSE, results |-> <<>>]

\* the call returns: the caches are written, the list goes to the caller
FixtureReturns(out) ==
    /\ weakSearchCache' = out.weak
    /\ persistentSearchCache' = out.persistent
    /\ searchCall' = [searchCall EXCEPT !.called = TRUE, !.threw = out.threw,
                                        !.results = out.results]

\* filterResults(downloads, searchQuery, searchMode) is called on the fixture
SearchFixture ==
    /\ FixtureReturns(FilterResults(searchCall.downloads, searchCall.searchQuery,
                                    searchCall.searchMode, weakSearchCache,
                                    persistentSearchCache, today))
    /\ UNCHANGED <<today, lastSearch, fixtureOthers>>

FixtureInit == searchCall = NoSearchCall

\* the arguments of the call are any list of fixture records, query and mode
FixtureInitAny ==
    \E downloads \in FixtureLists, searchQuery \in FixtureQueries, searchMode \in SearchModes :
        searchCall = [NoSearchCall EXCEPT !.downloads = downloads,
                                          !.searchQuery = searchQuery,
                                          !.searchMode = searchMode]

(***************************************************************************)
(* The URL cache over days (lib/url-cache.ts): cacheUrlData and            *)
(* getCachedUrl called at any time, each as one storage access.            *)
(***************************************************************************)
MaxHalfDays == 3
MaxMillis == 1
HalfDayMs == 12 * 60 * 60 * 1000

NoGet == [called |-> FALSE, at |-> 0, readable |-> FALSE, before |-> NoEntry, result |-> 0,
          after |-> NoEntry]

\* what the URL cache calls leave alone
UrlCacheRest ==
    UNCHANGED <<processedUrlLoads, recentlyRemovedUrls, failedUrlAt, loader, loaderCalls,
                netDelivered, lastFailure, sawBackoffSkip, lastCheck, urlHistoryOthers>>

\* cacheUrlData(url, data) runs; the put may fail
CacheUrlDataCall(u, data, writable) ==
    /\ urlCache' = CacheUrlData(urlCache, u, data, now, writable)
    /\ UNCHANGED <<now, lastGet>>
    /\ UrlCacheRest

\* getCachedUrl(url) runs; the store may be unreadable
GetCachedUrlCall(u, readable) ==
    /\ urlCache' = CacheAfterGet(urlCache, u, now, readable)
    /\ lastGet' = [called |-> TRUE, at |-> now, readable |-> readable, before |-> urlCache[u],
                   result |-> GetCachedUrl(urlCache, u, now, readable),
                   after |-> urlCache'[u]]
    /\ UNCHANGED now
    /\ UrlCacheRest

\* twelve hours pass
HalfDayPasses ==
    /\ (now - StartMs) \div HalfDayMs < MaxHalfDays
    /\ now' = now + HalfDayMs
    /\ UNCHANGED <<urlCache, lastGet>>
    /\ UrlCacheRest

\* a millisecond passes
MillisecondPasses ==
    /\ (now - StartMs) % HalfDayMs < MaxMillis
    /\ now' = now + 1
    /\ UNCHANGED <<urlCache, lastGet>>
    /\ UrlCacheRest

UrlHistoryInit == lastGet = NoGet

(***************************************************************************)
(* SearchBar (components/search-bar.tsx): the debounce effect.             *)
(***************************************************************************)
MaxChanges == 3
MaxBarTicks == 6
DEBOUNCE_MS == 250
\* the clock advances in steps of half the debounce delay
BarTickMs == DEBOUNCE_MS \div 2

\* what the user can have in the input
BarTexts == {"", "g", "ga"}

\* clearTimeout that cancels nothing
KeepTimeout(pending, timer) == pending

\* clearTimeout(id)
ClearTimeout(pending, timer) == pending \ {timer}

\* setTimeout(() => { if (input !== value) onChange(input) }, 250) of one render
DebounceTimer(in, val, t) == [due |-> t + DEBOUNCE_MS, input |-> in, value |-> val]

\* every timer a render can set
DebounceTimers ==
    {DebounceTimer(in, val, k * BarTickMs) : in \in BarTexts, val \in BarTexts,
                                             k \in 0..MaxBarTicks}

\* the debounce effect runs again: the cleanup of the last run, then a new timer
RerunEffect(in, val) ==
    /\ barTimer' = DebounceTimer(in, val, barClock)
    /\ barTimers' = ClearTimeout(barTimers, barTimer) \cup {DebounceTimer(in, val, barClock)}

\* the user edits the input: setInput(e.target.value), render, effect
InputChanges(v) ==
    /\ v # barInput
    /\ Len(barChanges) < MaxChanges
    /\ barInput' = v
    /\ RerunEffect(v, barValue)
    /\ barChanges' = Append(barChanges, [v |-> v, at |-> barClock])
    /\ UNCHANGED <<barValue, barClock, barCalls, searchBarOthers>>

\* a timer fires: it notifies the parent when its input is not its value; the parent
\* stores the query, and the new value prop runs both effects
TimerFires(timer) ==
    /\ timer \in barTimers
    /\ barClock >= timer.due
    /\ IF timer.input # timer.value
       THEN /\ barCalls' = Append(barCalls, [v |-> timer.input, at |-> barClock,
                                             afterChange |-> Len(barChanges)])
            /\ barValue' = timer.input
            /\ barInput' = timer.input
            /\ barTimer' = DebounceTimer(timer.input, timer.input, barClock)
            /\ barTimers' = ClearTimeout(barTimers \ {timer}, barTimer)
                                \cup {DebounceTimer(timer.input, timer.input, barClock)}
       ELSE /\ barTimers' = barTimers \ {timer}
            /\ UNCHANGED <<barCalls, barValue, barInput, barTimer>>
    /\ UNCHANGED <<barClock, barChanges, searchBarOthers>>

\* the page renders again and hands down a new onChange function
ParentRenders ==
    /\ RerunEffect(barInput, barValue)
    /\ UNCHANGED <<barInput, barValue, barClock, barChanges, barCalls, searchBarOthers>>

BarClockTicks ==
    /\ barClock < MaxBarTicks * BarTickMs
    /\ barClock' = barClock + BarTickMs
    /\ UNCHANGED <<barInput, barValue, barTimers, barTimer, barChanges, barCalls,
                   searchBarOthers>>

\* after the first render: input is the value prop, and the effect has set its timer
SearchBarInit ==
    /\ barInput = ""
    /\ barValue = ""
    /\ barClock = 0
    /\ barTimer = DebounceTimer("", "", 0)
    /\ barTimers = {DebounceTimer("", "", 0)}
    /\ barChanges = <<>>
    /\ barCalls = <<>>

(***************************************************************************)
(* Home (app/page.tsx): the deduplication effect and the filter effect.    *)
(* A list is written as what it was computed from.                         *)
(***************************************************************************)
MaxPageChanges == 3
NumCatalogLists == 2

\* gogs: 0 is the empty list, MalformedGogs holds a download whose title is no string
NoGogs == 0
MalformedGogs == NumCatalogLists + 1
GogsValues == 0..MalformedGogs

\* filters.searchQuery; the other fields of filters do not change
PageQueries == {<<>>, <<"s", "t", "a", "r">>, <<"c", "o", "n", "s", "t", "r", "u", "c", "t", "o", "r">>}

NoTimer == [set |-> FALSE]
EmptyList == [empty |-> TRUE]

\* processAndDeduplicateDownloads(gogs), called on a non-empty gogs
DedupThrows(g) == g = MalformedGogs
DedupList(g) == [empty |-> FALSE, gogs |-> g]

\* processDownloads(downloads, filters): [] of no downloads; filterResults may throw
ThrowingQueries ==
    {query \in PageQueries :
         Trim(query) # <<>> /\ LookupThrows(PrepareQuery(query, "all").searchTerms)}
FilterThrows(downloads, query) == downloads # EmptyList /\ query \in ThrowingQueries
ProcessDownloads(downloads, query) ==
    IF downloads = EmptyList THEN EmptyList
    ELSE [empty |-> FALSE, downloads |-> downloads, query |-> query]

\* the filter effect runs: the cleanup of its last run, then a 100 ms timer
FilterEffect(downloads, query) == filterTimer' = [set |-> TRUE, allDownloads |-> downloads,
                                                  query |-> query]

\* the store hands the page another gogs: the cleanup of the deduplication effect, then
\* either setAllDownloads([]) or a 0 ms timer
GogsChange(g) ==
    /\ g # pageGogs
    /\ pageChanges < MaxPageChanges
    /\ pageChanges' = pageChanges + 1
    /\ pageGogs' = g
    /\ IF g = NoGogs
       THEN /\ dedupTimer' = NoTimer
            /\ allDownloads' = EmptyList
            /\ FilterEffect(EmptyList, pageQuery)
       ELSE /\ dedupTimer' = [set |-> TRUE, gogs |-> g]
            /\ UNCHANGED <<allDownloads, filterTimer>>
    /\ UNCHANGED <<pageQuery, filteredDownloads, lastFilterPass, pageOthers>>

\* the deduplication timer fires
DedupTimerFires ==
    /\ dedupTimer.set
    /\ dedupTimer' = NoTimer
    /\ IF DedupThrows(dedupTimer.gogs)
       THEN UNCHANGED <<allDownloads, filterTimer>>
       ELSE /\ allDownloads' = DedupList(dedupTimer.gogs)
            /\ FilterEffect(DedupList(dedupTimer.gogs), pageQuery)
    /\ UNCHANGED <<pageGogs, pageQuery, filteredDownloads, pageChanges, lastFilterPass,
                   pageOthers>>

\* setFilters with another search query
FiltersChange(query) ==
    /\ query # pageQuery
    /\ pageChanges < MaxPageChanges
    /\ pageChanges' = pageChanges + 1
    /\ pageQuery' = query
    /\ FilterEffect(allDownloads, query)
    /\ UNCHANGED <<pageGogs, allDownloads, filteredDownloads, dedupTimer, lastFilterPass,
                   pageOthers>>

\* the filter timer fires
FilterTimerFires ==
    /\ filterTimer.set
    /\ filterTimer' = NoTimer
    /\ lastFilterPass' = [ran |-> TRUE, used |-> filterTimer.allDownloads,
                          latest |-> allDownloads]
    /\ IF FilterThrows(filterTimer.allDownloads, filterTimer.query)
       THEN UNCHANGED filteredDownloads
       ELSE filteredDownloads' = ProcessDownloads(filterTimer.allDownloads, filterTimer.query)
    /\ UNCHANGED <<pageGogs, pageQuery, allDownloads, dedupTimer, pageChanges, pageOthers>>

\* after the first render with an empty store: allDownloads is [], the filter timer is set
PageInit ==
    /\ pageGogs = NoGogs
    /\ pageQuery = <<>>
    /\ allDownloads = EmptyList
    /\ filteredDownloads = EmptyList
    /\ dedupTimer = NoTimer
    /\ filterTimer = [set |-> TRUE, allDownloads |-> EmptyList, query |-> <<>>]
    /\ pageChanges = 0
    /\ lastFilterPass = [ran |-> FALSE, used |-> EmptyList, latest |-> EmptyList]

(***************************************************************************)
(* useHealthCheck (hooks/use-data-state.ts), called with a stable          *)
(* onStatusChange.  A check answers within the tick it starts in.          *)
(***************************************************************************)
MaxHealthTicks == 14
DEFAULT_INTERVAL == 30000
QUICK_RETRY_INTERVAL == 5000

\* the interval argument of the caller
HealthIntervals == {DEFAULT_INTERVAL, 2 * QUICK_RETRY_INTERVAL}

NoHealthTimer == [set |-> FALSE]
NoHealthCheck == [done |-> FALSE]

\* checkHealth: the status it sets and what it returns
CheckHealth(ok) == [status |-> IF ok THEN "healthy" ELSE "unhealthy", isHealthy |-> ok]

\* history of the checks: the last one and the one before it
CheckRecorded(ok) ==
    /\ hcPrev' = hcLast
    /\ hcLast' = [done |-> TRUE, at |-> hcClock, ok |-> ok, number |-> hcCount + 1]
    /\ hcCount' = hcCount + 1

\* the effect runs on mount: checks at once, and then sets its timer by the answer
MountChecks(ok) ==
    /\ hcMounted = "no"
    /\ hcMounted' = "yes"
    /\ hcStatus' = CheckHealth(ok).status
    /\ CheckRecorded(ok)
    /\ IF ~CheckHealth(ok).isHealthy
       THEN /\ hcTimeout' = [set |-> TRUE, due |-> hcClock + QUICK_RETRY_INTERVAL]
            /\ hcIntervalTimer' = NoHealthTimer
       ELSE /\ hcIntervalTimer' = [set |-> TRUE, every |-> hcInterval,
                                   due |-> hcClock + hcInterval]
            /\ hcTimeout' = NoHealthTimer
    /\ UNCHANGED <<hcClock, hcInterval, healthOthers>>

\* the timeout set after an unhealthy first check fires: it starts the quick interval
RetryTimeoutFires ==
    /\ hcTimeout.set
    /\ hcTimeout.due = hcClock
    /\ hcTimeout' = NoHealthTimer
    /\ hcIntervalTimer' = [set |-> TRUE, every |-> QUICK_RETRY_INTERVAL,
                           due |-> hcClock + QUICK_RETRY_INTERVAL]
    /\ UNCHANGED <<hcMounted, hcStatus, hcClock, hcInterval, hcPrev, hcLast, hcCount,
                   healthOthers>>

\* the interval fires: checkHealth, whose result nobody reads
IntervalChecks(ok) ==
    /\ hcIntervalTimer.set
    /\ hcIntervalTimer.due = hcClock
    /\ hcIntervalTimer' = [hcIntervalTimer EXCEPT !.due = hcClock + hcIntervalTimer.every]
    /\ hcStatus' = CheckHealth(ok).status
    /\ CheckRecorded(ok)
    /\ UNCHANGED <<hcMounted, hcTimeout, hcClock, hcInterval, healthOthers>>

\* the cleanup of the effect, on unmount
HealthUnmounts ==
    /\ hcMounted = "yes"
    /\ hcMounted' = "gone"
    /\ hcIntervalTimer' = NoHealthTimer
    /\ hcTimeout' = NoHealthTimer
    /\ UNCHANGED <<hcStatus, hcClock, hcInterval, hcPrev, hcLast, hcCount, healthOthers>>

\* time passes, once the timers due now have fired
HealthClockTicks ==
    /\ hcClock < MaxHealthTicks * QUICK_RETRY_INTERVAL
    /\ hcMounted # "no"
    /\ ~(hcTimeout.set /\ hcTimeout.due = hcClock)
    /\ ~(hcIntervalTimer.set /\ hcIntervalTimer.due = hcClock)
    /\ hcClock' = hcClock + QUICK_RETRY_INTERVAL
    /\ UNCHANGED <<hcMounted, hcStatus, hcTimeout, hcIntervalTimer, hcInterval, hcPrev,
                   hcLast, hcCount, healthOthers>>

\* before the component mounts
HealthInit ==
    /\ hcMounted = "no"
    /\ hcStatus = "unknown"
    /\ hcTimeout = NoHealthTimer
    /\ hcIntervalTimer = NoHealthTimer
    /\ hcClock = 0
    /\ hcInterval = DEFAULT_INTERVAL
    /\ hcPrev = NoHealthCheck
    /\ hcLast = NoHealthCheck
    /\ hcCount = 0

\* the same, with any interval argument
HealthInitAny ==
    /\ hcMounted = "no"
    /\ hcStatus = "unknown"
    /\ hcTimeout = NoHealthTimer
    /\ hcIntervalTimer = NoHealthTimer
    /\ hcClock = 0
    /\ hcInterval \in HealthIntervals
    /\ hcPrev = NoHealthCheck
    /\ hcLast = NoHealthCheck
    /\ hcCount = 0

(***************************************************************************)
(* Home (app/page.tsx): the periodic refresh of the saved URL sources.     *)
(* Source u is loaded by invocation u of loadSingleSource.                 *)
(***************************************************************************)
MaxHours == 2
HourMs == 60 * 60 * 1000

NoRefresh == [ran |-> FALSE, at |-> 0, processed |-> {}, removed |-> {}, backoff |-> {},
              called |-> {}]

\* every invocation of the last loadSources has returned
LoadersIdle == \A i \in Procs : loader[i].pc = "idle"

\* periodicUpdate, on mount and then every hour: loadSources(storeSavedSources) calls
\* loadSingleSource of every saved URL source, each running to its first await
PeriodicUpdate ==
    /\ LoadersIdle
    /\ ~lastRefresh.ran \/ now - lastRefresh.at >= HourMs
    /\ loader' = [i \in Procs |->
                     IF i \in SourceUrls /\ i \notin processedUrlLoads
                     THEN [pc |-> "awaitCache", url |-> i, data |-> 0]
                     ELSE Idle]
    /\ lastRefresh' = [ran |-> TRUE, at |-> now,
                       processed |-> processedUrlLoads,
                       removed |-> {u \in SourceUrls : RecentlyRemoved(u)},
                       backoff |-> {u \in SourceUrls : InBackoff(failedUrlAt[u], now)},
                       called |-> SourceUrls]
    /\ UNCHANGED <<now, processedUrlLoads, recentlyRemovedUrls, failedUrlAt, urlCache,
                   loaderCalls, netDelivered, lastFailure, sawBackoffSkip, lastCheck,
                   refreshOthers>>

\* an hour passes; the loads of the last refresh have long returned
HourPasses ==
    /\ lastRefresh.ran
    /\ lastRefresh.at = now
    /\ LoadersIdle
    /\ now < StartMs + MaxHours * HourMs
    /\ now' = now + HourMs
    /\ UNCHANGED <<processedUrlLoads, recentlyRemovedUrls, failedUrlAt, urlCache, loader,
                   loaderCalls, netDelivered, lastFailure, sawBackoffSkip, lastCheck,
                   lastRefresh, refreshOthers>>

RefreshInit == lastRefresh = NoRefresh

(***************************************************************************)
(* The storage adapters: lib/idb.ts, lib/indexeddb.ts and the URL cache of *)
(* lib/lru-cache.ts, each operation with a storage access that may fail    *)
(***************************************************************************)
NumBlobKeys == 1
NumFileIds == 1

\* gog-data-<Date.now()>-<random>
BlobKeys == 1..NumBlobKeys
\* the ids callers of indexeddb.ts pass
FileIds == 1..NumFileIds

AdapterOps == {"storeBlob", "getBlob", "deleteBlob", "saveData", "getData", "deleteData",
               "getCachedUrl", "cacheUrlData", "clearExpiredCache"}

\* what an operation whose storage access failed does: a catch block logs, and rethrows
\* or not; without try/catch the rejection goes to the caller unlogged
Caught(rethrows) == [logged |-> TRUE, threw |-> rethrows]
Uncaught == [logged |-> FALSE, threw |-> TRUE]

\* every operation treated as swallowing
OnFailureSwallowed(op) == Caught(FALSE)

OnFailure(op) ==
    CASE op = "storeBlob" -> Caught(TRUE)
      [] op \in {"getBlob", "deleteBlob"} -> Caught(FALSE)
      [] op \in {"saveData", "getData", "deleteData"} -> Uncaught
      [] op \in {"getCachedUrl", "cacheUrlData", "clearExpiredCache"} -> Caught(FALSE)

\* the record of a call: result 0 is null, undefined or void
AdapterCall(op, fails, result) ==
    [op |-> op, failed |-> fails,
     logged |-> fails /\ OnFailure(op).logged,
     threw |-> fails /\ OnFailure(op).threw,
     result |-> IF fails THEN 0 ELSE result]

AdapterRest ==
    UNCHANGED <<processedUrlLoads, recentlyRemovedUrls, failedUrlAt, loader, loaderCalls,
                netDelivered, lastFailure, sawBackoffSkip, lastCheck, adapterOthers>>

\* storeBlob(data): set(key, data), the key returned
StoreBlob(key, data, fails) ==
    /\ blobStore' = IF fails THEN blobStore ELSE [blobStore EXCEPT ![key] = data]
    /\ lastAdapterCall' = AdapterCall("storeBlob", fails, key)
    /\ UNCHANGED <<fileStore, urlCache, now>>
    /\ AdapterRest

\* getBlob(key)
GetBlob(key, fails) ==
    /\ lastAdapterCall' = AdapterCall("getBlob", fails, blobStore[key])
    /\ UNCHANGED <<blobStore, fileStore, urlCache, now>>
    /\ AdapterRest

\* deleteBlob(key)
DeleteBlob(key, fails) ==
    /\ blobStore' = IF fails THEN blobStore ELSE [blobStore EXCEPT ![key] = 0]
    /\ lastAdapterCall' = AdapterCall("deleteBlob", fails, 0)
    /\ UNCHANGED <<fileStore, urlCache, now>>
    /\ AdapterRest

\* saveData(id, data)
SaveData(id, data, fails) ==
    /\ fileStore' = IF fails THEN fileStore ELSE [fileStore EXCEPT ![id] = data]
    /\ lastAdapterCall' = AdapterCall("saveData", fails, 0)
    /\ UNCHANGED <<blobStore, urlCache, now>>
    /\ AdapterRest

\* getData(id)
GetData(id, fails) ==
    /\ lastAdapterCall' = AdapterCall("getData", fails, fileStore[id])
    /\ UNCHANGED <<blobStore, fileStore, urlCache, now>>
    /\ AdapterRest

\* deleteData(id)
DeleteData(id, fails) ==
    /\ fileStore' = IF fails THEN fileStore ELSE [fileStore EXCEPT ![id] = 0]
    /\ lastAdapterCall' = AdapterCall("deleteData", fails, 0)
    /\ UNCHANGED <<blobStore, urlCache, now>>
    /\ AdapterRest

\* getCachedUrl(url)
CachedUrlRead(u, fails) ==
    /\ urlCache' = CacheAfterGet(urlCache, u, now, ~fails)
    /\ lastAdapterCall' = AdapterCall("getCachedUrl", fails, GetCachedUrl(urlCache, u, now, TRUE))
    /\ UNCHANGED <<blobStore, fileStore, now>>
    /\ AdapterRest

\* cacheUrlData(url, data)
CachedUrlWrite(u, data, fails) ==
    /\ urlCache' = CacheUrlData(urlCache, u, data, now, ~fails)
    /\ lastAdapterCall' = AdapterCall("cacheUrlData", fails, 0)
    /\ UNCHANGED <<blobStore, fileStore, now>>
    /\ AdapterRest

\* clearExpiredCache(): deletes the entries older than CACHE_EXPIRY in one transaction
ClearExpiredCache(fails) ==
    /\ urlCache' = IF fails THEN urlCache
                   ELSE [u \in SourceUrls |->
                            IF urlCache[u] # NoEntry /\ urlCache[u].timestamp < now - CACHE_EXPIRY
                            THEN NoEntry ELSE urlCache[u]]
    /\ lastAdapterCall' = AdapterCall("clearExpiredCache", fails, 0)
    /\ UNCHANGED <<blobStore, fileStore, now>>
    /\ AdapterRest

\* a day and a half passes
AdapterTimePasses ==
    /\ now < StartMs + 3 * HalfDayMs
    /\ now' = now + 3 * HalfDayMs
    /\ UNCHANGED <<blobStore, fileStore, urlCache, lastAdapterCall>>
    /\ AdapterRest

NoAdapterCall == [op |-> "none", failed |-> FALSE, logged |-> FALSE, threw |-> FALSE,
                  result |-> 0]

AdapterInit ==
    /\ blobStore = [key \in BlobKeys |-> 0]
    /\ fileStore = [id \in FileIds |-> 0]
    /\ lastAdapterCall = NoAdapterCall

(***************************************************************************)
(* loadSources (lib/search.ts) over a batch of saved URL sources with      *)
(* distinct URLs; the callbacks are the page's, which do not throw.        *)
(* Source u is loaded by invocation u of loadSingleSource.                 *)
(***************************************************************************)
MaxBatches == 2

NoBatch == [phase |-> "none", sources |-> {}, starts |-> 0, ends |-> 0, calls |-> 0]

\* Promise.all(urlSources.map(loadSingleSource)) of a batch whose loads settle one by one
PromiseAnySettled(sources) == \E u \in sources : loader[u].pc = "idle"

\* Promise.all(urlSources.map(loadSingleSource)): loadSingleSource catches everything,
\* so the promise resolves once every load has returned
PromiseAllSettled(sources) == \A u \in sources : loader[u].pc = "idle"

\* loadSources(sources, callbacks) with a non-empty list: onLoadStart, then every
\* loadSingleSource runs to its first await
LoadSourcesCall(sources) ==
    /\ sources # {}
    /\ batch.phase # "running"
    /\ batch.calls < MaxBatches
    /\ loader' = [i \in Procs |->
                     IF i \in sources /\ i \notin processedUrlLoads
                     THEN [pc |-> "awaitCache", url |-> i, data |-> 0]
                     ELSE Idle]
    /\ batch' = [phase |-> "running", sources |-> sources, starts |-> 1, ends |-> 0,
                 calls |-> batch.calls + 1]
    /\ UNCHANGED <<now, processedUrlLoads, recentlyRemovedUrls, failedUrlAt, urlCache,
                   loaderCalls, netDelivered, lastFailure, sawBackoffSkip, lastCheck,
                   batchOthers>>

\* the Promise.all resolved; finally: onLoadEnd
LoadSourcesSettles ==
    /\ batch.phase = "running"
    /\ PromiseAllSettled(batch.sources)
    /\ batch' = [batch EXCEPT !.phase = "done", !.ends = @ + 1]
    /\ UNCHANGED <<now, processedUrlLoads, recentlyRemovedUrls, failedUrlAt, urlCache, loader,
                   loaderCalls, netDelivered, lastFailure, sawBackoffSkip, lastCheck,
                   batchOthers>>

BatchInit == batch = NoBatch

(***************************************************************************)
(* loadServerSource and fetchServerList (lib/search.ts), with the store's  *)
(* loadSavedSource as the callback                                         *)
(***************************************************************************)
MaxServerCalls == 2

SourceTypes == {"file", "url"}
NotCalled == [pc |-> "idle", name |-> 0, returned |-> FALSE, downloaded |-> FALSE]

\* loadSavedSource(String(id)) is called: it awaits downloadFromServer
CallsLoadSavedSource ==
    /\ loads' = loads + 1
    /\ storeLast' = StoreOp("loadCall", 0, 0, "pending")

\* loadServerSource(source, loadSavedSource) runs to its first await, or returns false
LoadServerSourceCall(name, type, serverId) ==
    /\ serverCall.pc \in {"idle", "returned"}
    /\ serverCalls < MaxServerCalls
    /\ loads = 0
    /\ serverCalls' = serverCalls + 1
    /\ IF type = "file" /\ serverId # NoServerId
       THEN /\ serverCall' = [pc |-> "awaitLoad", name |-> name, returned |-> FALSE,
                              downloaded |-> FALSE]
            /\ CallsLoadSavedSource
       ELSE IF type = "file"
       THEN /\ serverCall' = [pc |-> "awaitList", name |-> name, returned |-> FALSE,
                              downloaded |-> FALSE]
            /\ UNCHANGED <<loads, storeLast>>
       ELSE /\ serverCall' = [pc |-> "returned", name |-> name, returned |-> FALSE,
                              downloaded |-> FALSE]
            /\ UNCHANGED <<loads, storeLast>>
    /\ UNCHANGED <<gogData, savedSources, uploadInProgress, uploads, toast, storeOrder,
                   serverListCache, markedProcessed, serverOthers>>

\* fetchServerList() answered: the cached list if there is one, else the list of the
\* backend (listed), or [] when the request failed; then the match by name
ServerListAnswers(listed, ok) ==
    LET serverList == IF serverListCache # {} THEN serverListCache
                      ELSE IF ok THEN listed ELSE {}
    IN /\ serverCall.pc = "awaitList"
       /\ serverListCache' = IF serverListCache = {} /\ ok THEN listed ELSE serverListCache
       /\ IF serverCall.name \in serverList
          THEN /\ serverCall' = [serverCall EXCEPT !.pc = "awaitLoad"]
               /\ CallsLoadSavedSource
          ELSE /\ serverCall' = [serverCall EXCEPT !.pc = "returned", !.returned = FALSE]
               /\ UNCHANGED <<loads, storeLast>>
       /\ UNCHANGED <<gogData, savedSources, uploadInProgress, uploads, toast, storeOrder,
                      serverCalls, markedProcessed, serverOthers>>

\* the awaited loadSavedSource resolved: markSourceAsProcessed(source.name); return true
LoadServerSourceReturns ==
    /\ serverCall.pc = "awaitLoad"
    /\ loads = 0
    /\ markedProcessed' = markedProcessed \cup {serverCall.name}
    /\ serverCall' = [serverCall EXCEPT !.pc = "returned", !.returned = TRUE,
                                        !.downloaded = storeLast.outcome = "stored"]
    /\ UNCHANGED <<gogData, savedSources, uploadInProgress, uploads, loads, toast, storeOrder,
                   storeLast, serverListCache, serverCalls, serverOthers>>

ServerInit ==
    /\ serverCall = NotCalled
    /\ serverListCache = {}
    /\ markedProcessed = {}
    /\ serverCalls = 0

(***************************************************************************)
(* expandSearchTermsWithSynonyms: the one of lib/types.ts, which            *)
(* filterResults calls, and the one of the search enhancer with its own     *)
(* table and its reverse lookup                                             *)
(***************************************************************************)
MaxTermList == 2

\* the terms the lists are drawn from, as strings and as character sequences
TermWords == <<"pc", "PC", "steam", "elden", "souls", "constructor", "zelda">>
TermChars == <<<<"p", "c">>, <<"P", "C">>, <<"s", "t", "e", "a", "m">>, <<"e", "l", "d", "e", "n">>, <<"s", "o", "u", "l", "s">>, <<"c", "o", "n", "s", "t", "r", "u", "c", "t", "o", "r">>,
               <<"z", "e", "l", "d", "a">>>>
TermLists == UNION {[1..n -> DOMAIN TermWords] : n \in 0..MaxTermList}

\* SYNONYMS_MAP of the search enhancer; a character outside ASCII is written {U+hhhh}
EnhancerSynonyms == <<
    [key |-> "rpg", synonyms |-> <<"role-playing", "roleplaying", "jrpg", "crpg", "action-rpg">>],
    [key |-> "skyrim", synonyms |-> <<"elder scrolls", "tes", "bethesda", "scrolls">>],
    [key |-> "fallout", synonyms |-> <<"vault", "bethesda", "power armor", "vault boy">>],
    [key |-> "witcher", synonyms |-> <<"geralt", "cdpr", "cd projekt", "monster hunter">>],
    [key |-> "dragon", synonyms |-> <<"dragonborn", "dragons", "dungeons">>],
    [key |-> "elden", synonyms |-> <<"ring", "fromsoft", "souls">>],
    [key |-> "souls", synonyms |-> <<"soulslike", "souls-like", "dark souls", "elden ring">>],
    [key |-> "gta", synonyms |-> <<"grand theft auto", "rockstar", "sandbox crime">>],
    [key |-> "sandbox", synonyms |-> <<"open world", "freeform", "exploration">>],
    [key |-> "minecraft", synonyms |-> <<"blocks", "crafting", "building", "voxel">>],
    [key |-> "wow", synonyms |-> <<"world of warcraft", "mmorpg", "blizzard", "warcraft">>],
    [key |-> "game", synonyms |-> <<"jogo", "gaming", "video game">>],
    [key |-> "jogo", synonyms |-> <<"game", "gaming">>],
    [key |-> "fps", synonyms |-> <<"first person", "shooter", "action">>],
    [key |-> "rts", synonyms |-> <<"strategy", "real-time", "command conquer">>],
    [key |-> "simulation", synonyms |-> <<"sim", "simulator", "simulated">>],
    [key |-> "adventure", synonyms |-> <<"explorer", "exploration", "quest">>],
    [key |-> "action", synonyms |-> <<"combat", "fighting", "battle">>],
    [key |-> "puzzle", synonyms |-> <<"logic", "brain teaser", "riddle">>],
    [key |-> "horror", synonyms |-> <<"terror", "scary", "survival horror">>],
    [key |-> "survival", synonyms |-> <<"survival horror", "crafting", "resource management">>],
    [key |-> "platformer", synonyms |-> <<"platform", "side-scroller", "jumping">>],
    [key |-> "racing", synonyms |-> <<"race", "car", "driving", "motorsport">>],
    [key |-> "sports", synonyms |-> <<"athletic", "competition", "esports">>],
    [key |-> "fighting", synonyms |-> <<"combat", "versus", "brawler", "fighter">>],
    [key |-> "mod", synonyms |-> <<"modification", "mods", "modding", "modifica{U+00E7}{U+00E3}o", "modificacoes">>],
    [key |-> "patch", synonyms |-> <<"update", "fixes", "fixed", "hotfix", "correcao">>],
    [key |-> "dlc", synonyms |-> <<"expansion", "addon", "content", "pack", "season pass">>],
    [key |-> "skin", synonyms |-> <<"cosmetic", "outfit", "appearance", "texture pack">>],
    [key |-> "shader", synonyms |-> <<"graphics mod", "lighting", "visual enhancement">>],
    [key |-> "texture", synonyms |-> <<"textura", "textures", "texturas", "graphics", "visual">>],
    [key |-> "armor", synonyms |-> <<"equipment", "gear", "outfit", "suit">>],
    [key |-> "weapon", synonyms |-> <<"sword", "gun", "rifle", "tool", "item">>],
    [key |-> "magic", synonyms |-> <<"spell", "sorcery", "witchcraft", "enchantment">>],
    [key |-> "quest", synonyms |-> <<"mission", "objective", "task", "adventure">>],
    [key |-> "fix", synonyms |-> <<"fixed", "fixing", "repair", "repaired", "correcao", "corrigido">>],
    [key |-> "tool", synonyms |-> <<"utility", "utils", "utilities", "ferramenta", "toolkit">>],
    [key |-> "install", synonyms |-> <<"installer", "setup", "installation", "instalacao">>],
    [key |-> "backup", synonyms |-> <<"saved", "copy", "copies", "save data", "savedata">>],
    [key |-> "save", synonyms |-> <<"savedata", "savefile", "savegame", "checkpoint">>],
    [key |-> "launcher", synonyms |-> <<"loader", "boot", "executor">>],
    [key |-> "manager", synonyms |-> <<"organizer", "controller", "handler">>],
    [key |-> "library", synonyms |-> <<"collection", "database", "catalog">>],
    [key |-> "nvidia", synonyms |-> <<"geforce", "rtx", "gtx", "graphics card", "gpu">>],
    [key |-> "amd", synonyms |-> <<"radeon", "rx", "ryzen", "processor">>],
    [key |-> "intel", synonyms |-> <<"core", "processor", "cpu", "xeon">>],
    [key |-> "cpu", synonyms |-> <<"processor", "processador", "core", "intel", "amd", "ryzen">>],
    [key |-> "gpu", synonyms |-> <<"graphics", "video", "graphics card", "geforce", "radeon">>],
    [key |-> "ram", synonyms |-> <<"memory", "memoria", "ddr">>],
    [key |-> "ssd", synonyms |-> <<"solid state", "storage", "disk">>],
    [key |-> "hdd", synonyms |-> <<"hard drive", "disk", "mechanical">>],
    [key |-> "hd", synonyms |-> <<"high", "definition", "resolution", "1080p", "fullhd">>],
    [key |-> "4k", synonyms |-> <<"uhd", "ultra", "2160p", "8k">>],
    [key |-> "1080p", synonyms |-> <<"fullhd", "hd", "1920x1080">>],
    [key |-> "720p", synonyms |-> <<"hd ready", "720">>],
    [key |-> "resolution", synonyms |-> <<"quality", "definition", "graphics setting">>],
    [key |-> "framerate", synonyms |-> <<"frame rate", "performance", "60fps", "144fps">>],
    [key |-> "ultra", synonyms |-> <<"maximum", "high", "quality", "4k">>],
    [key |-> "high", synonyms |-> <<"quality", "settings", "ultra", "graphics">>],
    [key |-> "low", synonyms |-> <<"minimum", "settings", "performance", "lightweight">>],
    [key |-> "sound", synonyms |-> <<"audio", "som", "sound effects", "sfx">>],
    [key |-> "music", synonyms |-> <<"soundtrack", "musica", "ost", "score", "background music">>],
    [key |-> "voice", synonyms |-> <<"dialogue", "voicepack", "voice acting">>],
    [key |-> "subtitle", synonyms |-> <<"subtitles", "subs", "closed caption">>],
    [key |-> "audio", synonyms |-> <<"sound", "music", "voice", "sonoro">>],
    [key |-> "video", synonyms |-> <<"movie", "trailer", "cutscene", "cinema">>],
    [key |-> "pt", synonyms |-> <<"portuguese", "portugues", "brasil", "br", "portugu{U+00EA}s">>],
    [key |-> "en", synonyms |-> <<"english", "ingles", "us", "uk", "american", "british">>],
    [key |-> "es", synonyms |-> <<"spanish", "espanol", "espanha", "espa{U+00F1}ol">>],
    [key |-> "fr", synonyms |-> <<"french", "frances", "francais">>],
    [key |-> "de", synonyms |-> <<"german", "deutsch", "alemao">>],
    [key |-> "ru", synonyms |-> <<"russian", "russo", "cyrillic">>],
    [key |-> "ja", synonyms |-> <<"japanese", "japones", "nihongo">>],
    [key |-> "ch", synonyms |-> <<"chinese", "mandarin", "cantonese">>],
    [key |-> "ko", synonyms |-> <<"korean", "korean language">>],
    [key |-> "br", synonyms |-> <<"brazilian", "brasil", "portuguese">>],
    [key |-> "multilanguage", synonyms |-> <<"multi-language", "multilingual", "localization">>],
    [key |-> "pc", synonyms |-> <<"windows", "steam", "pc gaming">>],
    [key |-> "windows", synonyms |-> <<"pc", "win", "microsoft">>],
    [key |-> "linux", synonyms |-> <<"ubuntu", "debian", "proton">>],
    [key |-> "mac", synonyms |-> <<"osx", "macos", "apple">>],
    [key |-> "steam", synonyms |-> <<"valve", "platform", "pc gaming">>],
    [key |-> "epic", synonyms |-> <<"epic games", "launcher">>],
    [key |-> "gog", synonyms |-> <<"good old games", "drm-free">>],
    [key |-> "console", synonyms |-> <<"playstation", "xbox", "nintendo">>],
    [key |-> "playstation", synonyms |-> <<"ps4", "ps5", "sony">>],
    [key |-> "xbox", synonyms |-> <<"x360", "xone", "microsoft">>],
    [key |-> "switch", synonyms |-> <<"nintendo switch", "portable">>],
    [key |-> "bethesda", synonyms |-> <<"skyrim", "fallout", "oblivion">>],
    [key |-> "cdpr", synonyms |-> <<"cd projekt", "witcher", "cyberpunk">>],
    [key |-> "fromsoft", synonyms |-> <<"elden ring", "dark souls", "bloodborne">>],
    [key |-> "valve", synonyms |-> <<"steam", "half-life", "portal">>],
    [key |-> "blizzard", synonyms |-> <<"wow", "diablo", "starcraft">>],
    [key |-> "rockstar", synonyms |-> <<"gta", "red dead", "max payne">>],
    [key |-> "ubisoft", synonyms |-> <<"assassins creed", "far cry", "splinter cell">>],
    [key |-> "activision", synonyms |-> <<"call of duty", "world of warcraft">>],
    [key |-> "ea", synonyms |-> <<"battlefield", "fifa", "sims">>],
    [key |-> "2k", synonyms |-> <<"bioshock", "borderlands", "civilization">>],
    [key |-> "capcom", synonyms |-> <<"resident evil", "monster hunter", "devil may cry">>],
    [key |-> "konami", synonyms |-> <<"metal gear", "castlevania", "silent hill">>],
    [key |-> "square", synonyms |-> <<"final fantasy", "dragon quest", "kingdom hearts">>],
    [key |-> "nintendo", synonyms |-> <<"mario", "zelda", "pokemon", "switch">>],
    [key |-> "sony", synonyms |-> <<"playstation", "god of war", "uncharted">>],
    [key |-> "microsoft", synonyms |-> <<"xbox", "halo", "gears of war">>],
    [key |-> "complete", synonyms |-> <<"full", "entire", "100%", "all dlc">>],
    [key |-> "remaster", synonyms |-> <<"remake", "enhanced", "updated", "version">>],
    [key |-> "classic", synonyms |-> <<"old", "retro", "nostalgia", "vintage">>],
    [key |-> "new", synonyms |-> <<"latest", "recent", "updated", "novo">>],
    [key |-> "free", synonyms |-> <<"gratis", "opensource", "freeware">>],
    [key |-> "multiplayer", synonyms |-> <<"mp", "online", "coop", "pvp">>],
    [key |-> "singleplayer", synonyms |-> <<"single", "offline", "campaign">>],
    [key |-> "coop", synonyms |-> <<"co-op", "cooperative", "together">>],
    [key |-> "pvp", synonyms |-> <<"player vs player", "competitive", "multiplayer">>],
    [key |-> "online", synonyms |-> <<"internet", "network", "multiplayer">>],
    [key |-> "offline", synonyms |-> <<"local", "singleplayer", "no connection">>]>>

\* the property names every object inherits: SYNONYMS_MAP[term] finds a function or an
\* object without forEach for them
InheritedKeys ==
    {"constructor", "toString", "valueOf", "hasOwnProperty", "isPrototypeOf",
     "propertyIsEnumerable", "toLocaleString", "__proto__", "__defineGetter__",
     "__defineSetter__", "__lookupGetter__", "__lookupSetter__"}

\* SYNONYMS_MAP[term] of the enhancer, for an own key
DirectSynonyms(term) ==
    UNION {Range(EnhancerSynonyms[k].synonyms) :
               k \in {j \in DOMAIN EnhancerSynonyms : EnhancerSynonyms[j].key = term}}

\* the keys whose synonyms include the term, with their synonyms
ReverseSynonyms(term) ==
    UNION {{EnhancerSynonyms[k].key} \cup Range(EnhancerSynonyms[k].synonyms) :
               k \in {j \in DOMAIN EnhancerSynonyms :
                          term \in Range(EnhancerSynonyms[j].synonyms)}}

\* expandSearchTermsWithSynonyms of the enhancer: the Set it builds, or a TypeError
EnhancerExpand(terms) ==
    [threw |-> terms \cap InheritedKeys # {},
     terms |-> terms \cup UNION {DirectSynonyms(t) \cup ReverseSynonyms(t) : t \in terms}]

\* expandSearchTermsWithSynonyms of lib/types.ts: the array it returns, or a TypeError
TypesExpand(terms) ==
    [threw |-> LookupThrows(terms),
     terms |-> IF LookupThrows(terms) THEN <<>> ELSE ExpandSearchTermsWithSynonyms(terms)]

NotExpanded == [enhancer |-> [threw |-> FALSE, terms |-> {}],
                types |-> [threw |-> FALSE, terms |-> <<>>]]

\* both functions are called with the list
ExpandOnce ==
    /\ synPhase = "input"
    /\ synPhase' = "once"
    /\ synOnce' = [enhancer |-> EnhancerExpand({TermWords[synTerms[k]] : k \in DOMAIN synTerms}),
                   types |-> TypesExpand([k \in DOMAIN synTerms |-> TermChars[synTerms[k]]])]
    /\ UNCHANGED <<synTerms, synTwice, synonymOthers>>

\* both functions are called with what they returned
ExpandAgain ==
    /\ synPhase = "once"
    /\ synPhase' = "twice"
    /\ synTwice' = [enhancer |-> IF synOnce.enhancer.threw THEN synOnce.enhancer
                                 ELSE EnhancerExpand(synOnce.enhancer.terms),
                    types |-> IF synOnce.types.threw THEN synOnce.types
                              ELSE TypesExpand(synOnce.types.terms)]
    /\ UNCHANGED <<synTerms, synOnce, synonymOthers>>

SynonymInit ==
    /\ synTerms = <<>>
    /\ synPhase = "input"
    /\ synOnce = NotExpanded
    /\ synTwice = NotExpanded

\* the same, for every term list
SynonymInitAny ==
    /\ synTerms \in TermLists
    /\ synPhase = "input"
    /\ synOnce = NotExpanded
    /\ synTwice = NotExpanded

(***************************************************************************)
(* The recency bonus in filterResults' scoring loop: the total score of    *)
(* one record from its term and synonym score and its upload date.         *)
(***************************************************************************)
\* upload dates 1 day after and 0, 7, 8, 30, 31, 90, 91, 180, 181, 365, 366 days before
\* SearchInstant, and a string that is not a date
BonusDates == <<
    [age |-> -1, uploadDate |-> <<"2", "0", "2", "4", "-", "0", "6", "-", "1", "6">>],
    [age |-> 0, uploadDate |-> <<"2", "0", "2", "4", "-", "0", "6", "-", "1", "5">>],
    [age |-> 7, uploadDate |-> <<"2", "0", "2", "4", "-", "0", "6", "-", "0", "8">>],
    [age |-> 8, uploadDate |-> <<"2", "0", "2", "4", "-", "0", "6", "-", "0", "7">>],
    [age |-> 30, uploadDate |-> <<"2", "0", "2", "4", "-", "0", "5", "-", "1", "6">>],
    [age |-> 31, uploadDate |-> <<"2", "0", "2", "4", "-", "0", "5", "-", "1", "5">>],
    [age |-> 90, uploadDate |-> <<"2", "0", "2", "4", "-", "0", "3", "-", "1", "7">>],
    [age |-> 91, uploadDate |-> <<"2", "0", "2", "4", "-", "0", "3", "-", "1", "6">>],
    [age |-> 180, uploadDate |-> <<"2", "0", "2", "3", "-", "1", "2", "-", "1", "8">>],
    [age |-> 181, uploadDate |-> <<"2", "0", "2", "3", "-", "1", "2", "-", "1", "7">>],
    [age |-> 365, uploadDate |-> <<"2", "0", "2", "3", "-", "0", "6", "-", "1", "6">>],
    [age |-> 366, uploadDate |-> <<"2", "0", "2", "3", "-", "0", "6", "-", "1", "5">>],
    [age |-> 0, uploadDate |-> <<"u", "n", "k", "n", "o", "w", "n">>] >>

\* term and synonym scores of a record: none, a short word, a synonym, a prefix, a whole
\* word, a whole word and a synonym
MatchedScores == {0, 28, 40, 75, 100, 170}

\* getRecencyBonus of the search enhancer, which filterResults does not import
EnhancerRecencyBonus(uploadDate, t) ==
    LET days == DaysSinceUpload(uploadDate, t)
    IN IF uploadDate = <<>> \/ days.nan THEN 0
       ELSE IF days.value <= 7 THEN 20
       ELSE IF days.value <= 30 THEN 10
       ELSE IF days.value <= 90 THEN 5
       ELSE IF days.value <= 365 THEN 2
       ELSE 0

NotScored == [date |-> 1, matched |-> 0, scored |-> FALSE, totalScore |-> 0]

\* the loop body's "Add recency bonus if any match" for one record
AddRecencyBonus ==
    /\ ~bonusCall.scored
    /\ bonusCall' = [bonusCall EXCEPT
                         !.scored = TRUE,
                         !.totalScore = TotalScore(bonusCall.matched,
                                                   BonusDates[bonusCall.date].uploadDate, today)]
    /\ UNCHANGED bonusOthers

\* the next record of the loop
NextRecord(date, matched) ==
    /\ bonusCall.scored
    /\ bonusCall' = [NotScored EXCEPT !.date = date, !.matched = matched]
    /\ UNCHANGED bonusOthers

BonusInit == bonusCall = NotScored

(***************************************************************************)
(* useHealthCheck's effect, instance by instance: the initial check is a   *)
(* promise that resolves in a later step, the two refs are shared by the   *)
(* instances of one component.                                             *)
(***************************************************************************)
MaxEffects == 3
MaxPolls == 2

\* a ref's current value when no timer was stored in it
NullRef == 0

\* an effect instance: its initial check is in flight until the .then callback has run
EffectStarted == [checking |-> TRUE, cleaned |-> FALSE, cleanedInFlight |-> FALSE]

\* clearInterval / clearTimeout of the timer a ref holds: a null ref is skipped, a timer
\* that is gone is ignored
ClearRef(scheduled, ref) == {t \in scheduled : t.id # ref}

\* the effect's cleanup function
EffectCleanup(scheduled) == ClearRef(ClearRef(scheduled, intervalRef), timeoutRef)

\* the instance that is current
Current == Len(effects)

\* interval or onStatusChange changed: the cleanup of the current instance runs, then the
\* effect again, which starts checkHealth()
DepsChange ==
    /\ fxMounted
    /\ Current < MaxEffects
    /\ timers' = EffectCleanup(timers)
    /\ effects' = Append([effects EXCEPT ![Current].cleaned = TRUE,
                                         ![Current].cleanedInFlight = effects[Current].checking],
                         EffectStarted)
    /\ UNCHANGED <<fxMounted, intervalRef, timeoutRef, nextTimer, polls, latePolls, effectOthers>>

\* the component unmounts: the cleanup of the current instance runs
EffectUnmounts ==
    /\ fxMounted
    /\ fxMounted' = FALSE
    /\ timers' = EffectCleanup(timers)
    /\ effects' = [effects EXCEPT ![Current].cleaned = TRUE,
                                  ![Current].cleanedInFlight = effects[Current].checking]
    /\ UNCHANGED <<intervalRef, timeoutRef, nextTimer, polls, latePolls, effectOthers>>

\* checkHealth() of instance i resolves and its .then callback runs: setInterval when
\* healthy, setTimeout otherwise, whether or not the instance was cleaned up
InitialCheckResolves(i, isHealthy) ==
    /\ i \in DOMAIN effects
    /\ effects[i].checking
    /\ effects' = [effects EXCEPT ![i].checking = FALSE]
    /\ timers' = timers \cup {[id |-> nextTimer, owner |-> i,
                               kind |-> IF isHealthy THEN "interval" ELSE "timeout"]}
    /\ nextTimer' = nextTimer + 1
    /\ IF isHealthy
       THEN intervalRef' = nextTimer /\ UNCHANGED timeoutRef
       ELSE timeoutRef' = nextTimer /\ UNCHANGED intervalRef
    /\ UNCHANGED <<fxMounted, polls, latePolls, effectOthers>>

\* the ids setTimeout and setInterval can return: an instance sets two timers at most
TimerIds == 1..(2 * MaxEffects)
TimerOf(id) == CHOOSE t \in timers : t.id = id
IsScheduled(id, kind) == \E t \in timers : t.id = id /\ t.kind = kind

\* the quick-retry timeout fires: its callback sets the interval
QuickRetryFires(id) ==
    /\ IsScheduled(id, "timeout")
    /\ timers' = (timers \ {TimerOf(id)})
                     \cup {[id |-> nextTimer, owner |-> TimerOf(id).owner, kind |-> "interval"]}
    /\ intervalRef' = nextTimer
    /\ nextTimer' = nextTimer + 1
    /\ UNCHANGED <<fxMounted, effects, timeoutRef, polls, latePolls, effectOthers>>

\* an interval fires: checkHealth is called
PollFires(id) ==
    /\ IsScheduled(id, "interval")
    /\ polls < MaxPolls
    /\ polls' = polls + 1
    /\ latePolls' = IF effects[TimerOf(id).owner].cleaned
                    THEN latePolls \cup {TimerOf(id).owner} ELSE latePolls
    /\ UNCHANGED <<fxMounted, effects, timers, intervalRef, timeoutRef, nextTimer, effectOthers>>

\* the component has mounted: the effect ran once and its check is in flight
EffectInit ==
    /\ fxMounted = TRUE
    /\ effects = <<EffectStarted>>
    /\ timers = {}
    /\ intervalRef = NullRef
    /\ timeoutRef = NullRef
    /\ nextTimer = 1
    /\ polls = 0
    /\ latePolls = {}

(***************************************************************************)
(* ClientI18nProvider: the locale of useAppState, the message bundles      *)
(* being loaded and the messages held.                                     *)
(***************************************************************************)
MaxLocaleChanges == 6

\* the locales of the LanguageSelector
Locales == {"pt-BR", "en"}

\* useState<Messages>({})
NoMessages == "{}"

\* the default export of locales/<locale>.json
Bundle(l) == l

NoLoads == [l \in Locales |-> 0]

\* setLocale(newLocale): the effect on [locale] runs when the value changed, and calls
\* loadMessages(locale)
SetLocale(newLocale) ==
    /\ localeChanges < MaxLocaleChanges
    /\ localeChanges' = localeChanges + 1
    /\ locale' = newLocale
    /\ bundleLoads' = IF newLocale # locale
                      THEN [bundleLoads EXCEPT ![newLocale] = @ + 1] ELSE bundleLoads
    /\ UNCHANGED <<messages, i18nOthers>>

\* a pending loadMessages(l) resolves: .then(setMessages)
LoadMessagesResolves(l) ==
    /\ bundleLoads[l] > 0
    /\ bundleLoads' = [bundleLoads EXCEPT ![l] = @ - 1]
    /\ messages' = Bundle(l)
    /\ UNCHANGED <<locale, localeChanges, i18nOthers>>

\* the provider has mounted with the default locale: its effect has called loadMessages
I18nInit ==
    /\ locale = "pt-BR"
    /\ messages = NoMessages
    /\ bundleLoads = [NoLoads EXCEPT !["pt-BR"] = 1]
    /\ localeChanges = 0

\* the parts below the search caches, idle
LaterInit ==
    /\ FixtureInit
    /\ UrlHistoryInit
    /\ SearchBarInit
    /\ PageInit
    /\ HealthInit
    /\ RefreshInit
    /\ AdapterInit
    /\ BatchInit
    /\ ServerInit
    /\ SynonymInit
    /\ BonusInit
    /\ EffectInit
    /\ I18nInit
I18nOthersInit ==
    /\ FixtureInit
    /\ UrlHistoryInit
    /\ SearchBarInit
    /\ PageInit
    /\ HealthInit
    /\ RefreshInit
    /\ AdapterInit
    /\ BatchInit
    /\ ServerInit
    /\ SynonymInit
    /\ BonusInit
    /\ EffectInit

EffectOthersInit ==
    /\ FixtureInit
    /\ UrlHistoryInit
    /\ SearchBarInit
    /\ PageInit
    /\ HealthInit
    /\ RefreshInit
    /\ AdapterInit
    /\ BatchInit
    /\ ServerInit
    /\ SynonymInit
    /\ BonusInit
    /\ I18nInit

BonusOthersInit ==
    /\ FixtureInit
    /\ UrlHistoryInit
    /\ SearchBarInit
    /\ PageInit
    /\ HealthInit
    /\ RefreshInit
    /\ AdapterInit
    /\ BatchInit
    /\ ServerInit
    /\ SynonymInit
    /\ EffectInit
    /\ I18nInit

SynonymOthersInit ==
    /\ FixtureInit
    /\ UrlHistoryInit
    /\ SearchBarInit
    /\ PageInit
    /\ HealthInit
    /\ RefreshInit
    /\ AdapterInit
    /\ BatchInit
    /\ ServerInit
    /\ BonusInit
    /\ EffectInit
    /\ I18nInit

ServerOthersInit ==
    /\ FixtureInit
    /\ UrlHistoryInit
    /\ SearchBarInit
    /\ PageInit
    /\ HealthInit
    /\ RefreshInit
    /\ AdapterInit
    /\ BatchInit
    /\ SynonymInit
    /\ BonusInit
    /\ EffectInit
    /\ I18nInit

BatchOthersInit ==
    /\ FixtureInit
    /\ UrlHistoryInit
    /\ SearchBarInit
    /\ PageInit
    /\ HealthInit
    /\ RefreshInit
    /\ AdapterInit
    /\ ServerInit
    /\ SynonymInit
    /\ BonusInit
    /\ EffectInit
    /\ I18nInit

AdapterOthersInit ==
    /\ FixtureInit
    /\ UrlHistoryInit
    /\ SearchBarInit
    /\ PageInit
    /\ HealthInit
    /\ RefreshInit
    /\ BatchInit
    /\ ServerInit
    /\ SynonymInit
    /\ BonusInit
    /\ EffectInit
    /\ I18nInit

RefreshOthersInit ==
    /\ FixtureInit
    /\ UrlHistoryInit
    /\ SearchBarInit
    /\ PageInit
    /\ HealthInit
    /\ AdapterInit
    /\ BatchInit
    /\ ServerInit
    /\ SynonymInit
    /\ BonusInit
    /\ EffectInit
    /\ I18nInit

HealthOthersInit ==
    /\ FixtureInit
    /\ UrlHistoryInit
    /\ SearchBarInit
    /\ PageInit
    /\ RefreshInit
    /\ AdapterInit
    /\ BatchInit
    /\ ServerInit
    /\ SynonymInit
    /\ BonusInit
    /\ EffectInit
    /\ I18nInit

PageOthersInit ==
    /\ FixtureInit
    /\ UrlHistoryInit
    /\ SearchBarInit
    /\ HealthInit
    /\ RefreshInit
    /\ AdapterInit
    /\ BatchInit
    /\ ServerInit
    /\ SynonymInit
    /\ BonusInit
    /\ EffectInit
    /\ I18nInit

SearchBarOthersInit ==
    /\ FixtureInit
    /\ UrlHistoryInit
    /\ PageInit
    /\ HealthInit
    /\ RefreshInit
    /\ AdapterInit
    /\ BatchInit
    /\ ServerInit
    /\ SynonymInit
    /\ BonusInit
    /\ EffectInit
    /\ I18nInit

UrlHistoryOthersInit ==
    /\ FixtureInit
    /\ SearchBarInit
    /\ PageInit
    /\ HealthInit
    /\ RefreshInit
    /\ AdapterInit
    /\ BatchInit
    /\ ServerInit
    /\ SynonymInit
    /\ BonusInit
    /\ EffectInit
    /\ I18nInit

FixtureOthersInit ==
    /\ UrlHistoryInit
    /\ SearchBarInit
    /\ PageInit
    /\ HealthInit
    /\ RefreshInit
    /\ AdapterInit
    /\ BatchInit
    /\ ServerInit
    /\ SynonymInit
    /\ BonusInit
    /\ EffectInit
    /\ I18nInit

(***************************************************************************)
(* Specifications                                                          *)
(***************************************************************************)
\* the LRU cache under any calls
InitLRU == LruInit /\ StoreInit /\ LoaderInit /\ IngestInit /\ DedupInit /\ SearchInit /\ LaterInit
NextLRU ==
    \/ \E key \in Keys, value \in Values : CacheSet(key, value)
    \/ \E key \in Keys : CacheGet(key)
    \/ \E key \in Keys : CacheHas(key)
    \/ \E key \in Keys : CacheDelete(key)
    \/ CacheClear
SpecLRU == InitLRU /\ [][NextLRU]_vars

LruIdle == LruInit /\ lruMaxSize = 1 /\ lruHasOnEvict

\* the data store from its construction
Init == LruIdle /\ StoreInit /\ LoaderInit /\ IngestInit /\ DedupInit /\ SearchInit /\ LaterInit
Next ==
    \/ \E name \in Names, payload \in Payloads, url \in {NoUrl} \cup Urls :
           AddGogData(name, payload, url)
    \/ \E name \in Names, id \in ServerIds : UploadResolves(name, id)
    \/ \E name \in Names : UploadRejects(name)
    \/ \E name \in Names, serverOk \in BOOLEAN : RemoveSource(name, serverOk)
    \/ LoadSavedSourceCall
    \/ \E name \in Names, payload \in Payloads : LoadSavedSourceOk(name, payload)
    \/ LoadSavedSourceFails
Spec == Init /\ [][Next]_vars

\* the data store from a full catalog list, under file-sourced addGogData calls
\* (URL-sourced calls merge in the same way and are covered by Spec)
InitCap == LruIdle /\ StoreInitFull /\ LoaderInit /\ IngestInit /\ DedupInit /\ SearchInit /\ LaterInit
NextCap ==
    \/ \E name \in Names, payload \in Payloads : AddGogData(name, payload, NoUrl)
    \/ \E name \in Names, id \in ServerIds : UploadResolves(name, id)
    \/ \E name \in Names : UploadRejects(name)
    \/ \E name \in Names, serverOk \in BOOLEAN : RemoveSource(name, serverOk)
    \/ LoadSavedSourceCall
    \/ \E name \in Names, payload \in Payloads : LoadSavedSourceOk(name, payload)
    \/ LoadSavedSourceFails
SpecCap == InitCap /\ [][NextCap]_vars

\* the source loader: interleaved loadSingleSource invocations, removals and time
InitLoader == LruIdle /\ StoreInit /\ LoaderInit /\ IngestInit /\ DedupInit /\ SearchInit /\ LaterInit
NextLoader ==
    \/ \E i \in Procs, u \in SourceUrls : LoadSingleSourceCall(i, u)
    \/ \E i \in Procs, readable \in BOOLEAN : CacheLookupDone(i, readable)
    \/ \E i \in Procs, outcome \in FetchOutcomes, data \in Payloads :
           FetchDone(i, outcome, data)
    \/ \E i \in Procs, writable \in BOOLEAN : CacheWriteDone(i, writable)
    \/ \E u \in SourceUrls : MarkSourceAsRemoved(u)
    \/ Tick
SpecLoader == InitLoader /\ [][NextLoader]_vars

\* the ingestion paths, for every parsed payload
InitIngest == LruIdle /\ StoreInit /\ LoaderInit /\ IngestInitAny /\ DedupInit /\ SearchInit /\ LaterInit
NextIngest ==
    \/ HandleFileChange
    \/ HandleUrlLoad
    \/ \E periodic \in BOOLEAN : LoadSingleSourceDelivers(periodic)
    \/ ReconcileFetch
    \/ RetrySource
SpecIngest == InitIngest /\ [][NextIngest]_vars

\* deduplication of every bounded list of catalogs
InitDedup == LruIdle /\ StoreInit /\ LoaderInit /\ IngestInit /\ DedupInitAny /\ SearchInit /\ LaterInit
NextDedup == Deduplicate
SpecDedup == InitDedup /\ [][NextDedup]_vars

\* searches over the record table, with the caches carried from call to call
InitSearch == LruIdle /\ StoreInit /\ LoaderInit /\ IngestInit /\ DedupInit /\ SearchInit /\ LaterInit
NextSearch ==
    \/ \E downloads \in SearchLists, searchQuery \in SearchQueries, searchMode \in SearchModes :
           FilterResultsCall(downloads, searchQuery, searchMode)
    \/ \E id \in 1..NumSearchRecords : RecordCollected(id)
SpecSearch == InitSearch /\ [][NextSearch]_vars

\* one fixture search after the module is loaded
InitFixture ==
    /\ LruIdle /\ StoreInit /\ LoaderInit /\ IngestInit /\ DedupInit /\ SearchInit
    /\ FixtureInitAny /\ FixtureOthersInit
NextFixture == SearchFixture
SpecFixture == InitFixture /\ [][NextFixture]_vars

\* the URL cache written and read while days pass
InitUrlCache == Init
NextUrlCache ==
    \/ \E u \in SourceUrls, data \in Payloads, writable \in BOOLEAN :
           CacheUrlDataCall(u, data, writable)
    \/ \E u \in SourceUrls, readable \in BOOLEAN : GetCachedUrlCall(u, readable)
    \/ HalfDayPasses
    \/ MillisecondPasses
SpecUrlCache == InitUrlCache /\ [][NextUrlCache]_vars

\* the search bar while the user types, timers fire and the page renders
InitSearchBar == Init
NextSearchBar ==
    \/ \E v \in BarTexts : InputChanges(v)
    \/ \E timer \in DebounceTimers : TimerFires(timer)
    \/ ParentRenders
    \/ BarClockTicks
SpecSearchBar == InitSearchBar /\ [][NextSearchBar]_vars

\* the page while the store and the filters change and the timers fire
InitPage == Init
NextPage ==
    \/ \E g \in GogsValues : GogsChange(g)
    \/ DedupTimerFires
    \/ \E query \in PageQueries : FiltersChange(query)
    \/ FilterTimerFires
SpecPage == InitPage /\ [][NextPage]_vars
\* a timer that is set and not cleared fires
SpecPageLive == SpecPage /\ WF_vars(DedupTimerFires) /\ WF_vars(FilterTimerFires)

\* the health check hook from mount to unmount
InitHealth ==
    /\ LruIdle /\ StoreInit /\ LoaderInit /\ IngestInit /\ DedupInit /\ SearchInit
    /\ HealthInitAny /\ HealthOthersInit
NextHealth ==
    \/ \E ok \in BOOLEAN : MountChecks(ok)
    \/ RetryTimeoutFires
    \/ \E ok \in BOOLEAN : IntervalChecks(ok)
    \/ HealthUnmounts
    \/ HealthClockTicks
SpecHealth == InitHealth /\ [][NextHealth]_vars

\* the saved URL sources refreshed on mount and every hour
InitRefresh == Init
NextRefresh ==
    \/ PeriodicUpdate
    \/ \E i \in Procs, readable \in BOOLEAN : CacheLookupDone(i, readable)
    \/ \E i \in Procs, outcome \in FetchOutcomes, data \in Payloads :
           FetchDone(i, outcome, data)
    \/ \E i \in Procs, writable \in BOOLEAN : CacheWriteDone(i, writable)
    \/ \E u \in SourceUrls : MarkSourceAsRemoved(u)
    \/ HourPasses
SpecRefresh == InitRefresh /\ [][NextRefresh]_vars

\* the storage adapters called in any order, their storage failing or not
InitAdapter == Init
NextAdapter ==
    \/ \E key \in BlobKeys, data \in Payloads, fails \in BOOLEAN : StoreBlob(key, data, fails)
    \/ \E key \in BlobKeys, fails \in BOOLEAN : GetBlob(key, fails)
    \/ \E key \in BlobKeys, fails \in BOOLEAN : DeleteBlob(key, fails)
    \/ \E id \in FileIds, data \in Payloads, fails \in BOOLEAN : SaveData(id, data, fails)
    \/ \E id \in FileIds, fails \in BOOLEAN : GetData(id, fails)
    \/ \E id \in FileIds, fails \in BOOLEAN : DeleteData(id, fails)
    \/ \E u \in SourceUrls, fails \in BOOLEAN : CachedUrlRead(u, fails)
    \/ \E u \in SourceUrls, data \in Payloads, fails \in BOOLEAN :
           CachedUrlWrite(u, data, fails)
    \/ \E fails \in BOOLEAN : ClearExpiredCache(fails)
    \/ AdapterTimePasses
SpecAdapter == InitAdapter /\ [][NextAdapter]_vars

\* batches of saved URL sources loaded by loadSources
InitBatch == Init
NextBatch ==
    \/ \E sources \in SUBSET SourceUrls : LoadSourcesCall(sources)
    \/ \E i \in Procs, readable \in BOOLEAN : CacheLookupDone(i, readable)
    \/ \E i \in Procs, outcome \in FetchOutcomes, data \in Payloads :
           FetchDone(i, outcome, data)
    \/ \E i \in Procs, writable \in BOOLEAN : CacheWriteDone(i, writable)
    \/ \E u \in SourceUrls : MarkSourceAsRemoved(u)
    \/ LoadSourcesSettles
    \/ Tick
SpecBatch == InitBatch /\ [][NextBatch]_vars

\* saved sources rehydrated from the backend
InitServer == Init
NextServer ==
    \/ \E name \in Names, type \in SourceTypes, serverId \in {NoServerId} \cup ServerIds :
           LoadServerSourceCall(name, type, serverId)
    \/ \E listed \in SUBSET Names, ok \in BOOLEAN : ServerListAnswers(listed, ok)
    \/ \E name \in Names, payload \in Payloads : LoadSavedSourceOk(name, payload)
    \/ LoadSavedSourceFails
    \/ LoadServerSourceReturns
SpecServer == InitServer /\ [][NextServer]_vars

\* term lists expanded, and their expansions expanded again
InitSynonym ==
    /\ LruIdle /\ StoreInit /\ LoaderInit /\ IngestInit /\ DedupInit /\ SearchInit
    /\ SynonymInitAny /\ SynonymOthersInit
NextSynonym == ExpandOnce \/ ExpandAgain
SpecSynonym == InitSynonym /\ [][NextSynonym]_vars

\* records of every age and score go through the scoring loop
InitBonus == Init
NextBonus ==
    \/ AddRecencyBonus
    \/ \E date \in DOMAIN BonusDates, matched \in MatchedScores : NextRecord(date, matched)
SpecBonus == InitBonus /\ [][NextBonus]_vars

\* the data store, with every upload that was started settling
UploadSettles(name) == UploadRejects(name) \/ \E id \in ServerIds : UploadResolves(name, id)
InitUploads == Init
NextUploads ==
    \/ \E name \in Names, payload \in Payloads, url \in {NoUrl} \cup Urls :
           AddGogData(name, payload, url)
    \/ \E name \in Names, id \in ServerIds : UploadResolves(name, id)
    \/ \E name \in Names : UploadRejects(name)
    \/ \E name \in Names, serverOk \in BOOLEAN : RemoveSource(name, serverOk)
SpecUploads == InitUploads /\ [][NextUploads]_vars
SpecUploadsSettle == SpecUploads /\ \A name \in Names : WF_vars(UploadSettles(name))

\* the health-check effect under dependency changes, unmount and timers
InitEffect == Init
NextEffect ==
    \/ DepsChange
    \/ EffectUnmounts
    \/ \E i \in 1..MaxEffects, isHealthy \in BOOLEAN : InitialCheckResolves(i, isHealthy)
    \/ \E id \in TimerIds : QuickRetryFires(id)
    \/ \E id \in TimerIds : PollFires(id)
SpecEffect == InitEffect /\ [][NextEffect]_vars

\* the provider under locale changes, the bundle loads resolving in any order
InitI18n == Init
NextI18n ==
    \/ \E newLocale \in Locales : SetLocale(newLocale)
    \/ \E l \in Locales : LoadMessagesResolves(l)
SpecI18n == InitI18n /\ [][NextI18n]_vars

(***************************************************************************)
(* Claims about the LRU cache                                              *)
(***************************************************************************)
\* the key of `c` whose most recent get or set is the oldest, by the history
LeastRecentlyTouched(c) ==
    CHOOSE k \in DOMAIN c.cache :
        \A j \in DOMAIN c.cache \ {k} :
            \E a, b \in DOMAIN lruRecency :
                lruRecency[a] = k /\ lruRecency[b] = j /\ a < b

\* the last call was a set() of a new key into a full cache, after get/set calls only
EvictingSet ==
    /\ lruLast.op = "set"
    /\ lruOnlyGetSet
    /\ LruSize(lruLast.before) = lruMaxSize
    /\ ~LruHas(lruLast.before, lruLast.key)

\* C4: a set() of a new key into a full cache (after get/set calls only) removes
\* exactly the least recently touched key, invokes the eviction callback (if
\* supplied) exactly once with that key and its stored value, and leaves every
\* other entry unchanged.
ClaimC4 ==
    EvictingSet =>
        LET b == lruLast.before
            victim == LeastRecentlyTouched(b)
        IN /\ DOMAIN lru.cache = (DOMAIN b.cache \ {victim}) \cup {lruLast.key}
           /\ lru.cache[lruLast.key] = lruLast.value
           /\ \A k \in DOMAIN b.cache \ {victim} : lru.cache[k] = b.cache[k]
           /\ lruEvicted = IF lruHasOnEvict
                           THEN << <<victim, b.cache[victim]>> >> ELSE <<>>

\* C4, as far as the code goes: the same, with the callback invoked only when the
\* evicted value is not undefined.
EvictionExceptUndefined ==
    EvictingSet =>
        LET b == lruLast.before
            victim == LeastRecentlyTouched(b)
        IN /\ DOMAIN lru.cache = (DOMAIN b.cache \ {victim}) \cup {lruLast.key}
           /\ lru.cache[lruLast.key] = lruLast.value
           /\ \A k \in DOMAIN b.cache \ {victim} : lru.cache[k] = b.cache[k]
           /\ lruEvicted = IF lruHasOnEvict /\ b.cache[victim] # Undefined
                           THEN << <<victim, b.cache[victim]>> >> ELSE <<>>

\* C5: the number of stored entries never exceeds maxSize, whatever the calls.
InvC5 == LruSize(lru) <= lruMaxSize

\* C5 witness: after a delete or clear, a set() of a new key met a full cache and
\* the cache is still exactly full.
WitnessC5 ==
    /\ lruLast.op = "set"
    /\ ~lruOnlyGetSet
    /\ LruSize(lruLast.before) = lruMaxSize
    /\ ~LruHas(lruLast.before, lruLast.key)
    /\ LruSize(lru) = lruMaxSize

(***************************************************************************)
(* Claims about the data store                                             *)
(***************************************************************************)
\* C1: while the upload started by a file-sourced addGogData call for a name is
\* pending, every further addGogData call with that name is rejected: it raises the
\* "in progress" notice, starts no upload, and leaves gogData and savedSources as
\* they were.
PropC1 ==
    [][(storeLast'.op = "add" /\ storeLast'.name \in uploads) =>
           /\ toast' = Toast(ToastInProgress)
           /\ uploads' = uploads
           /\ gogData' = gogData
           /\ savedSources' = savedSources]_vars

\* C1 witness: an addGogData call was rejected while the name's upload is pending.
WitnessC1 ==
    /\ storeLast.op = "add"
    /\ storeLast.outcome = "rejected"
    /\ storeLast.name \in uploads
    /\ toast.title = ToastInProgress
    /\ gogData # <<>>

\* C8: no two catalogs of gogData have the same name, and a catalog that was added
\* or loaded (a rejected addGogData call adds nothing) is the one held under its
\* name, at the end of the list.
InvC8 ==
    /\ \A i, j \in DOMAIN gogData : gogData[i].name = gogData[j].name => i = j
    /\ storeLast.outcome = "stored" =>
           /\ gogData # <<>>
           /\ gogData[Len(gogData)].name = storeLast.name
           /\ gogData[Len(gogData)].payload = storeLast.payload

\* C8 witness: a catalog was stored under a name that held other contents.
WitnessC8 ==
    /\ storeLast.outcome = "stored"
    /\ storeLast.had
    /\ storeLast.old # storeLast.payload
    /\ Len(gogData) > 1

\* the held name whose last insertion is the oldest, by the history
OldestInserted ==
    storeOrder[CHOOSE i \in DOMAIN storeOrder :
        /\ storeOrder[i] \in CatalogNames(gogData)
        /\ \A j \in 1..(i - 1) : storeOrder[j] \notin CatalogNames(gogData)]

\* C9: gogData never holds more than 50 catalogs; an insertion of a new name into a
\* list of 50 drops the catalog inserted (or last replaced) longest ago, keeps the
\* others as they were and keeps the catalog just added.
PropC9 ==
    /\ [](Len(gogData) <= MAX_GOG_SOURCES)
    /\ [][(/\ storeLast'.outcome = "stored"
           /\ Len(gogData) = MAX_GOG_SOURCES
           /\ storeLast'.name \notin CatalogNames(gogData)) =>
              /\ CatalogNames(gogData') =
                     (CatalogNames(gogData) \ {OldestInserted}) \cup {storeLast'.name}
              /\ \A i \in DOMAIN gogData :
                     gogData[i].name # OldestInserted => gogData[i] \in Range(gogData')
              /\ gogData'[Len(gogData')].name = storeLast'.name
              /\ gogData'[Len(gogData')].payload = storeLast'.payload]_vars

\* C9 witness: a new name was inserted into a full list that still holds catalog n1,
\* which headed the list until it was replaced.
WitnessC9 ==
    /\ storeLast.outcome = "stored"
    /\ storeLast.full
    /\ ~storeLast.had
    /\ storeLast.name # 1
    /\ 1 \in CatalogNames(gogData)
    /\ Len(gogData) = MAX_GOG_SOURCES


(***************************************************************************)
(* Claims about the source loader                                          *)
(***************************************************************************)
\* a call for a URL that failed before decided, with no cached response for the URL,
\* whether to fetch
CheckedAfterFailure == lastCheck.url # 0 /\ ~lastCheck.cached /\ lastCheck.failedAt # 0

\* C2 as stated: after a load of u failed at t, a later call with no cached response
\* does not fetch before t + 10 minutes and does fetch after t + 10 minutes.
ClaimC2 ==
    CheckedAfterFailure =>
        /\ lastCheck.at - lastCheck.failedAt < FAILED_URL_RETRY_MS => ~lastCheck.fetched
        /\ lastCheck.at - lastCheck.failedAt > FAILED_URL_RETRY_MS => lastCheck.fetched

\* C2, amended: after the most recent failed load of u at t, a later call with no
\* cached response does not fetch when its retry check runs before t + 10 minutes; when
\* the check runs at or after t + 10 minutes it fetches exactly if u was not in
\* processedUrlLoads when the call started and neither u nor the source's name is in
\* recentlyRemovedUrls.
InvC2 ==
    CheckedAfterFailure =>
        (lastCheck.fetched <=>
            /\ lastCheck.at - lastCheck.failedAt >= FAILED_URL_RETRY_MS
            /\ ~lastCheck.processed
            /\ ~lastCheck.removed)

\* a call was held back by the retry window and a later one fetched again
WitnessC2 == sawBackoffSkip /\ CheckedAfterFailure /\ lastCheck.fetched

\* C3 as stated: whatever the interleaving of loadSingleSource invocations, a URL is
\* fetched and delivered to onAddData at most once (processedUrlLoads is never
\* unmarked).
ClaimC3 == \A u \in SourceUrls : netDelivered[u] <= 1


(***************************************************************************)
(* Claims about the ingestion paths                                        *)
(***************************************************************************)
\* C7 as stated: whatever path hands a payload to addGogData, the payload has the
\* isValidGogData shape.
ClaimC7 == lastIngest.accepted => IsValidGogData(lastIngest.data)

\* the two paths that call isValidGogData hand over valid catalogs only
ValidatedPaths ==
    (lastIngest.accepted /\ lastIngest.path \in {"loadSingleSource", "reconcile"})
        => IsValidGogData(lastIngest.data)


(***************************************************************************)
(* Claims about processAndDeduplicateDownloads                             *)
(***************************************************************************)
SamePair(a, b) == a.title = b.title /\ a.uploadDate = b.uploadDate

\* position <<g2, i2>> comes before <<g, i>> in catalog-then-position order
Before(g2, i2, g, i) == g2 < g \/ (g2 = g /\ i2 < i)

NoSharedPair ==
    \A i, j \in DOMAIN dedupResults :
        i # j => ~SamePair(dedupResults[i], dedupResults[j])

\* record r is the record at its origin, stamped with that catalog's name
FromItsCatalog(r) ==
    LET g == r.uris[1]
        i == r.uris[2]
    IN /\ g \in DOMAIN gogs
       /\ i \in DOMAIN gogs[g].downloads
       /\ SamePair(r, gogs[g].downloads[i])
       /\ r.source = gogs[g].name

\* no record before r's origin, in any catalog, has r's pair
FirstOccurrence(r) ==
    \A g \in DOMAIN gogs : \A i \in DOMAIN gogs[g].downloads :
        Before(g, i, r.uris[1], r.uris[2]) => ~SamePair(r, gogs[g].downloads[i])

\* no record before r's origin, in a catalog that has a name, has r's pair
FirstNamedOccurrence(r) ==
    \A g \in DOMAIN gogs : \A i \in DOMAIN gogs[g].downloads :
        (gogs[g].name # "" /\ Before(g, i, r.uris[1], r.uris[2]))
            => ~SamePair(r, gogs[g].downloads[i])

NoInvalidTitle == \A k \in DOMAIN dedupResults : ~InvalidTitle(dedupResults[k])

\* C10 as stated: the result has no two records with the same (title, uploadDate);
\* each kept record is the first occurrence of its pair in catalog-then-position order
\* and carries its catalog's name as source; no kept title is empty, whitespace or
\* "Wkeynhk".
ClaimC10 ==
    dedupRan =>
        /\ NoSharedPair
        /\ \A k \in DOMAIN dedupResults :
               FromItsCatalog(dedupResults[k]) /\ FirstOccurrence(dedupResults[k])
        /\ NoInvalidTitle

\* C10, amended: as stated, with "first occurrence" counted among the catalogs that
\* have a non-empty name (a catalog whose name is empty contributes no record).
InvC10 ==
    dedupRan =>
        /\ NoSharedPair
        /\ \A k \in DOMAIN dedupResults :
               FromItsCatalog(dedupResults[k]) /\ FirstNamedOccurrence(dedupResults[k])
        /\ NoInvalidTitle

\* a run that kept a record, collapsed a later record of another catalog with the same
\* pair, and dropped a record with an invalid title
WitnessC10 ==
    /\ dedupRan
    /\ \E k \in DOMAIN dedupResults :
       \E g \in DOMAIN gogs : \E i \in DOMAIN gogs[g].downloads :
           /\ gogs[g].name # ""
           /\ dedupResults[k].uris[1] < g
           /\ SamePair(dedupResults[k], gogs[g].downloads[i])
    /\ \E g \in DOMAIN gogs : \E i \in DOMAIN gogs[g].downloads :
           gogs[g].name # "" /\ InvalidTitle(gogs[g].downloads[i])


(***************************************************************************)
(* Claims about filterResults                                              *)
(***************************************************************************)
\* C6 as stated: filterResults returns the same records in the same order whether the
\* two search caches are empty or were filled by earlier calls.
ClaimC6 ==
    lastSearch.called =>
        /\ lastSearch.threw = lastSearch.coldThrew
        /\ lastSearch.results = lastSearch.cold

(***************************************************************************)
(* Claims about filterResults on the fixture                               *)
(***************************************************************************)
\* the query of the fixture call as filterResults prepares it
CallQuery == PrepareQuery(searchCall.searchQuery, searchCall.searchMode)
Listed == {searchCall.downloads[k].id : k \in DOMAIN searchCall.downloads}
Returned == Range(searchCall.results)

\* the score of a term against a record's own normalized title and source
OwnScore(id, term) ==
    ScoreForTerm(term, ComputeSearchText(FixtureRecordTable[id]).searchText,
                 ComputeSearchText(FixtureRecordTable[id]).words)

\* the total score the call gave a returned record, from the text it cached for it
CallScore(id) ==
    TotalScore(ScoreTerms(CallQuery.searchTerms, weakSearchCache[id].searchText,
                          weakSearchCache[id].words).total
                   + ScoreSynonyms(CallQuery.synonymTerms, weakSearchCache[id].searchText,
                                   weakSearchCache[id].words),
               FixtureRecordTable[id].uploadDate, today)

EveryTermScores(id) ==
    \A k \in DOMAIN CallQuery.searchTerms : OwnScore(id, CallQuery.searchTerms[k]) # 0
SomeTermOrSynonymScores(id) ==
    \/ \E k \in DOMAIN CallQuery.searchTerms : OwnScore(id, CallQuery.searchTerms[k]) # 0
    \/ \E k \in DOMAIN CallQuery.synonymTerms :
           (OwnScore(id, CallQuery.synonymTerms[k]) * 7) \div 10 # 0

\* C11: for a non-empty query, mode "all" returns exactly the records in which every
\* original term scores, and mode "any" exactly the records whose total score is not zero.
ClaimC11 ==
    (searchCall.called /\ Trim(searchCall.searchQuery) # <<>>) =>
        Returned = {id \in Listed : IF searchCall.searchMode = "all"
                                    THEN EveryTermScores(id)
                                    ELSE SomeTermOrSynonymScores(id)}

\* the query is one term, and no phrase
SingleTerm == Len(CallQuery.searchTerms) = 1 /\ CallQuery.exactPhrases = <<>>
TheTerm == CallQuery.searchTerms[1]
WholeWordIn(id) ==
    TestWordBoundary(ComputeSearchText(FixtureRecordTable[id]).searchText, TheTerm)

\* the returned list is in order of score, ties in order of lower-cased title
SortedByScoreThenTitle ==
    (searchCall.called /\ ~searchCall.threw) =>
        \A i, j \in DOMAIN searchCall.results :
            i < j =>
                /\ CallScore(searchCall.results[i]) >= CallScore(searchCall.results[j])
                /\ CallScore(searchCall.results[i]) = CallScore(searchCall.results[j]) =>
                       LocaleCompare(LowerString(FixtureRecordTable[searchCall.results[i]].title),
                                     LowerString(FixtureRecordTable[searchCall.results[j]].title)) <= 0

\* C12: the returned list is in order of score, ties by title, and for one term of
\* three characters or more a whole-word match comes before every partial match.
ClaimC12 ==
    /\ SortedByScoreThenTitle
    /\ (searchCall.called /\ ~searchCall.threw /\ SingleTerm /\ Len(TheTerm) >= 3) =>
           \A i, j \in DOMAIN searchCall.results :
               (WholeWordIn(searchCall.results[i]) /\ ~WholeWordIn(searchCall.results[j]))
                   => i < j

ShortTermCall == searchCall.called /\ SingleTerm /\ Len(TheTerm) < 3

ShortTermInsideWord ==
    /\ ShortTermCall
    /\ searchCall.results = <<>>
    /\ \E id \in Listed :
           Includes(ComputeSearchText(FixtureRecordTable[id]).searchText, TheTerm)

(***************************************************************************)
(* Claims about the URL cache                                              *)
(***************************************************************************)
\* the last getCachedUrl found the entry a cacheUrlData call stored
EntryFound == lastGet.called /\ lastGet.before # NoEntry
EntryAge == lastGet.at - lastGet.before.timestamp

\* what getCachedUrl does with an entry it can read
FreshReturnedExpiredDeleted ==
    IF EntryAge <= CACHE_EXPIRY
    THEN lastGet.result = lastGet.before.data /\ lastGet.after = lastGet.before
    ELSE lastGet.result = 0 /\ lastGet.after = NoEntry

\* C14 as stated: an entry stored at t is returned up to t + 24 hours, and after that
\* null is returned and the entry deleted.
ClaimC14 == EntryFound => FreshReturnedExpiredDeleted

\* C14: when the store can be read, an entry stored at t is returned up to t + 24 hours,
\* and after that null is returned and the entry deleted, so later calls find no entry
\* and return null; when the store cannot be read, null is returned and the entry stays.
InvC14 ==
    /\ (EntryFound /\ lastGet.readable) => FreshReturnedExpiredDeleted
    /\ (lastGet.called /\ lastGet.before = NoEntry) =>
           (lastGet.result = 0 /\ lastGet.after = NoEntry)
    /\ (lastGet.called /\ ~lastGet.readable) =>
           (lastGet.result = 0 /\ lastGet.after = lastGet.before)

\* an entry read one millisecond after its 24 hours: null, and the entry is gone
WitnessC14 ==
    /\ EntryFound /\ lastGet.readable
    /\ EntryAge = CACHE_EXPIRY + 1
    /\ lastGet.result = 0 /\ lastGet.after = NoEntry

\* an entry read exactly 24 hours after it was stored is returned
ReturnedAtLimit ==
    EntryFound /\ lastGet.readable /\ EntryAge = CACHE_EXPIRY /\ lastGet.result # 0

(***************************************************************************)
(* Claims about the search bar                                             *)
(***************************************************************************)
\* the onChange calls made after input change k and before the next one
CallsAfterChange(k) == {i \in DOMAIN barCalls : barCalls[i].afterChange = k}

\* C15: a change followed by another in less than 250 ms is never passed to onChange;
\* every onChange call passes the last value typed, 250 ms or more after it was typed,
\* and no value is passed twice.
InvC15 ==
    /\ \A k \in 1..(Len(barChanges) - 1) :
           barChanges[k + 1].at - barChanges[k].at < DEBOUNCE_MS => CallsAfterChange(k) = {}
    /\ \A i \in DOMAIN barCalls :
           /\ barCalls[i].afterChange >= 1
           /\ barCalls[i].v = barChanges[barCalls[i].afterChange].v
           /\ barCalls[i].at - barChanges[barCalls[i].afterChange].at >= DEBOUNCE_MS
    /\ \A k \in DOMAIN barChanges : Cardinality(CallsAfterChange(k)) <= 1

\* three changes less than 250 ms apart, then one onChange call with the third value
WitnessC15 ==
    /\ Len(barChanges) = 3
    /\ barChanges[2].at - barChanges[1].at < DEBOUNCE_MS
    /\ barChanges[3].at - barChanges[2].at < DEBOUNCE_MS
    /\ barChanges[2].at > barChanges[1].at
    /\ Len(barCalls) = 1
    /\ barCalls[1].v = barChanges[3].v

(***************************************************************************)
(* Claims about the page's effects                                         *)
(***************************************************************************)
\* what the page should show for the current gogs and filters
CurrentList ==
    ProcessDownloads(IF pageGogs = NoGogs THEN EmptyList ELSE DedupList(pageGogs), pageQuery)

\* every filter pass uses the allDownloads of the last completed deduplication
FilterPassUsesLatest == lastFilterPass.ran => lastFilterPass.used = lastFilterPass.latest

\* C16: every filter pass uses the latest allDownloads, and once gogs and filters stop
\* changing filteredDownloads is, from some point on, the list of the current gogs and
\* filters.
ClaimC16 == []FilterPassUsesLatest /\ <>[](filteredDownloads = CurrentList)

\* the same, for gogs the deduplication can process and queries the search can process
SettlesUnlessThrown ==
    <>[](\/ filteredDownloads = CurrentList
         \/ (pageGogs # NoGogs /\ DedupThrows(pageGogs))
         \/ FilterThrows(allDownloads, pageQuery))

(***************************************************************************)
(* Claims about useHealthCheck                                             *)
(***************************************************************************)
\* the time between the last two checks
CheckGap == hcLast.at - hcPrev.at

\* C17: the first check is made on mount, and every later check comes 5 seconds after a
\* check that found the backend unhealthy and the caller's interval after one that found
\* it healthy.
ClaimC17 ==
    /\ hcMounted # "no" => hcCount >= 1
    /\ hcPrev.done =>
           CheckGap = IF hcPrev.ok THEN hcInterval ELSE QUICK_RETRY_INTERVAL

\* what the hook does while mounted: the answer of the first check alone sets the period
PeriodSetByFirstCheck ==
    /\ hcMounted # "no" => hcCount >= 1
    /\ hcIntervalTimer.set => hcIntervalTimer.every \in {hcInterval, QUICK_RETRY_INTERVAL}
    /\ (hcIntervalTimer.set /\ hcPrev.done /\ hcPrev.number > 1) =>
           CheckGap = hcIntervalTimer.every
    /\ (hcPrev.done /\ hcPrev.number = 1) =>
           CheckGap = IF hcPrev.ok THEN hcInterval ELSE 2 * QUICK_RETRY_INTERVAL

(***************************************************************************)
(* Claims about the periodic refresh                                       *)
(***************************************************************************)
\* the sources whose load a periodicUpdate started anew
LoadedAgain == lastRefresh.called \ lastRefresh.processed

\* C18: a periodicUpdate loads again every saved URL source that is neither recently
\* removed nor in backoff, also one loaded earlier in the session.
ClaimC18 ==
    lastRefresh.ran =>
        \A u \in SourceUrls :
            (u \notin lastRefresh.removed /\ u \notin lastRefresh.backoff) => u \in LoadedAgain

\* a source loaded earlier in the session is called and returns at once
ProcessedNotLoadedAgain ==
    /\ lastRefresh.ran => \A u \in lastRefresh.processed : u \notin LoadedAgain
    /\ \A u \in SourceUrls : netDelivered[u] <= 1

(***************************************************************************)
(* Claims about the storage adapters                                       *)
(***************************************************************************)
Swallowing == {"getBlob", "deleteBlob", "getCachedUrl", "cacheUrlData", "clearExpiredCache"}
Rejecting == {"saveData", "getData", "deleteData"}

SaveDataRejected == lastAdapterCall.op = "saveData" /\ lastAdapterCall.threw

(***************************************************************************)
(* Claims about removal and loads in flight                                *)
(***************************************************************************)
\* invocation i delivers the cached catalog of its URL: onAddData(cached, url)
DeliversCached(i) ==
    /\ loader[i].pc = "awaitCache"
    /\ loader'[i].pc = "idle"
    /\ GetCachedUrl(urlCache, loader[i].url, now, TRUE) # 0
    /\ processedUrlLoads' = processedUrlLoads \cup {loader[i].url}
    /\ UNCHANGED <<urlCache, lastCheck, sawBackoffSkip>>

\* invocation i delivers the fetched catalog: onAddData(json, url)
DeliversFetched(i) ==
    /\ loader[i].pc = "awaitCacheWrite"
    /\ loader'[i].pc = "idle"
    /\ netDelivered'[loader[i].url] = netDelivered[loader[i].url] + 1

\* C20: once markSourceAsRemoved was called for a source, no invocation of
\* loadSingleSource for its URL calls onAddData, not even one in flight at the removal.
ClaimC20 ==
    [][\A i \in Procs :
           (DeliversCached(i) \/ DeliversFetched(i)) => ~RecentlyRemoved(loader[i].url)]_vars

\* a call made after the removal returns at its first check
NoLoadStartsAfterRemoval ==
    /\ [](\A u \in SourceUrls : RecentlyRemoved(u) => u \in processedUrlLoads)
    /\ [][\A i \in Procs :
              (loader[i].pc = "idle" /\ loader'[i].pc # "idle") =>
                  ~RecentlyRemoved(loader'[i].url)]_vars

(***************************************************************************)
(* Claims about failed loads                                               *)
(***************************************************************************)
\* invocation i returns from its fetch without a catalog
FetchFails(i) == loader[i].pc = "awaitFetch" /\ loader'[i].pc = "idle"

\* C21: a load of URL u that reached the network and failed sets failedUrlAt[u] to the
\* current time, adds nothing to the processed set, writes no cache entry and delivers
\* nothing.
PropC21 ==
    [][\A i \in Procs :
           FetchFails(i) =>
               /\ failedUrlAt'[loader[i].url] = now
               /\ processedUrlLoads' = processedUrlLoads
               /\ urlCache' = urlCache
               /\ netDelivered' = netDelivered]_vars

\* a failed load left its time, and nothing else, behind
WitnessC21 ==
    \E u \in SourceUrls :
        /\ failedUrlAt[u] = now
        /\ u \notin processedUrlLoads
        /\ urlCache[u] = NoEntry
        /\ netDelivered[u] = 0

(***************************************************************************)
(* Claims about loadSources                                                *)
(***************************************************************************)
\* why a source of a settled batch may not have been delivered: its own failure, its own
\* removal
OwnReason(u) == failedUrlAt[u] # 0 \/ RecentlyRemoved(u)

\* C22: in a loadSources call over a non-empty list, onLoadStart fires once before the
\* loads and onLoadEnd once after every load has returned, and every source of the batch
\* has then been delivered unless it failed or was removed itself.
InvC22 ==
    /\ batch.phase = "running" => batch.starts = 1 /\ batch.ends = 0
    /\ batch.phase = "done" =>
           /\ batch.starts = 1 /\ batch.ends = 1
           /\ \A u \in batch.sources :
                  /\ loader[u].pc = "idle"
                  /\ u \in processedUrlLoads \/ OwnReason(u)

\* a batch settled in which one source failed and the other was fetched and delivered
WitnessC22 ==
    /\ batch.phase = "done"
    /\ \E u, v \in batch.sources :
           /\ failedUrlAt[u] # 0 /\ u \notin processedUrlLoads
           /\ netDelivered[v] = 1 /\ failedUrlAt[v] = 0

(***************************************************************************)
(* Claims about loadServerSource                                           *)
(***************************************************************************)
\* C23: loadServerSource returns true exactly when the catalog was loaded into gogData,
\* and false otherwise, also when the download from the backend failed.
ClaimC23 ==
    serverCall.pc = "returned" => (serverCall.returned <=> serverCall.downloaded)

\* what it returns: whether it called loadSavedSource at all
ReturnsWhetherCalled ==
    /\ serverCall.pc = "returned" /\ serverCall.downloaded => serverCall.returned
    /\ serverCall.pc = "returned" /\ serverCall.returned =>
           /\ storeLast.op = "load"
           /\ serverCall.name \in markedProcessed

(***************************************************************************)
(* Claims about the synonym expansion                                      *)
(***************************************************************************)
InputWords == {TermWords[synTerms[k]] : k \in DOMAIN synTerms}
InputChars == {TermChars[synTerms[k]] : k \in DOMAIN synTerms}
NoDuplicates(seq) == \A i, j \in DOMAIN seq : seq[i] = seq[j] => i = j

\* C24: for every term list, the expansion contains every term of the list and no
\* duplicates, and the expansion of the expansion has the same terms.
ClaimC24 ==
    /\ synPhase # "input" =>
           /\ ~synOnce.enhancer.threw /\ ~synOnce.types.threw
           /\ InputWords \subseteq synOnce.enhancer.terms
           /\ InputChars \subseteq Range(synOnce.types.terms)
           /\ NoDuplicates(synOnce.types.terms)
    /\ synPhase = "twice" =>
           /\ ~synTwice.enhancer.threw /\ ~synTwice.types.threw
           /\ synTwice.enhancer.terms = synOnce.enhancer.terms
           /\ Range(synTwice.types.terms) = Range(synOnce.types.terms)

\* the function of lib/types.ts, when it returns
TypesExpandIdempotent ==
    /\ (synPhase # "input" /\ ~synOnce.types.threw) =>
           /\ InputChars \subseteq Range(synOnce.types.terms)
           /\ NoDuplicates(synOnce.types.terms)
    /\ (synPhase = "twice" /\ ~synOnce.types.threw) =>
           /\ ~synTwice.types.threw
           /\ synTwice.types.terms = synOnce.types.terms

\* the enhancer expands one step only: the synonyms of a synonym come with the next call
EnhancerGrows ==
    /\ synPhase = "twice"
    /\ ~synTwice.enhancer.threw
    /\ synTwice.enhancer.terms # synOnce.enhancer.terms

(***************************************************************************)
(* Claims about the recency bonus                                          *)
(***************************************************************************)
BonusAdded == bonusCall.totalScore - bonusCall.matched
BonusAge == BonusDates[bonusCall.date].age
BonusDateValid == IsIsoDate(BonusDates[bonusCall.date].uploadDate)

\* C25: the bonus added to a record with a positive score is +20 up to 7 whole days of
\* age, +10 up to 30, +5 up to 90, +2 up to 365 and 0 beyond, and nothing is added to a
\* record whose term and synonym score is zero.
ClaimC25 ==
    (bonusCall.scored /\ BonusDateValid) =>
        BonusAdded = IF bonusCall.matched = 0 THEN 0
                     ELSE IF BonusAge <= 7 THEN 20
                     ELSE IF BonusAge <= 30 THEN 10
                     ELSE IF BonusAge <= 90 THEN 5
                     ELSE IF BonusAge <= 365 THEN 2
                     ELSE 0

\* what the loop adds: the bonus of lib/types.ts, by whole days of age, and nothing to
\* a score of zero or for a date that does not parse
BonusOfTypes ==
    bonusCall.scored =>
        BonusAdded = IF bonusCall.matched = 0 \/ ~BonusDateValid THEN 0
                     ELSE IF BonusAge <= 7 THEN 50
                     ELSE IF BonusAge <= 30 THEN 30
                     ELSE IF BonusAge <= 90 THEN 15
                     ELSE IF BonusAge <= 180 THEN 5
                     ELSE 0

\* the claim's numbers are those of the enhancer's function
EnhancerBonusAsClaimed ==
    (bonusCall.scored /\ BonusDateValid /\ bonusCall.matched > 0) =>
        EnhancerRecencyBonus(BonusDates[bonusCall.date].uploadDate, today)
            = IF BonusAge <= 7 THEN 20
              ELSE IF BonusAge <= 30 THEN 10
              ELSE IF BonusAge <= 90 THEN 5
              ELSE IF BonusAge <= 365 THEN 2
              ELSE 0

(***************************************************************************)
(* Claims about the access order of the LRU cache                          *)
(***************************************************************************)
\* the stored keys, from the least to the most recently touched by get or set
StoredByRecency == SelectSeq(lruRecency, LAMBDA k : LruHas(lru, k))

\* C26: whatever set, get, delete and clear calls were made, keys() holds each stored key
\* exactly once and no other key, from the least to the most recently used by get/set.
InvC26 ==
    /\ Range(lru.accessOrder) = DOMAIN lru.cache
    /\ Len(lru.accessOrder) = LruSize(lru)
    /\ lru.accessOrder = StoredByRecency

\* C26 witness: after a delete or clear, a get() of the least recently used of two stored
\* keys has moved it behind the other.
WitnessC26 ==
    /\ lruLast.op = "get"
    /\ ~lruOnlyGetSet
    /\ Len(lruLast.before.accessOrder) = 2
    /\ Head(lruLast.before.accessOrder) = lruLast.key
    /\ lru.accessOrder[2] = lruLast.key

(***************************************************************************)
(* Claims about the in-progress guard                                      *)
(***************************************************************************)
\* addGogData(name, ...) passes the guard in this step
PassesGuard(name) ==
    /\ name \notin uploadInProgress
    /\ storeLast'.op = "add" /\ storeLast'.name = name /\ storeLast'.outcome = "stored"

\* the upload started for the name settles in this step
SettlesUpload(name) ==
    /\ name \in uploads
    /\ storeLast'.op = "uploaded" /\ storeLast'.name = name

\* a name is in the in-progress set exactly while its upload is pending
GuardedWhilePending == uploadInProgress = uploads

DescriptorNames(saved) == {saved[i].name : i \in DOMAIN saved}

\* removeSource(name) was the last operation on the store: no call was issued since
JustRemoved(name) == storeLast.op = "remove" /\ storeLast.name = name

\* this step issues no addGogData and no loadSavedSource call
NoCallIssued == storeLast'.op \notin {"add", "loadCall"}

\* C28: once removeSource(name) has updated the store, no catalog and no descriptor of
\* that name is in the store until a new addGogData or loadSavedSource call is issued: a
\* download or an upload that was in flight at the removal does not put them back.
ClaimC28 ==
    [][\A name \in Names :
           (JustRemoved(name) /\ NoCallIssued) =>
               /\ name \notin CatalogNames(gogData')
               /\ name \notin DescriptorNames(savedSources')]_vars

\* the upload in flight at the removal puts nothing back, and no completion puts the
\* descriptor back
RemovedDescriptorStaysOut ==
    [][\A name \in Names :
           (JustRemoved(name) /\ NoCallIssued) =>
               /\ name \notin DescriptorNames(savedSources')
               /\ storeLast'.op = "uploaded" => name \notin CatalogNames(gogData')]_vars

\* a download in flight at the removal of its catalog has completed
LoadedAfterRemoval ==
    /\ storeLast.op = "load" /\ storeLast.outcome = "stored"
    /\ storeLast.name \in CatalogNames(gogData)
    /\ storeLast.name \notin DescriptorNames(savedSources)
    /\ ~storeLast.had

(***************************************************************************)
(* Claims about the cleanup of the health-check effect                     *)
(***************************************************************************)
CleanedUp == {i \in DOMAIN effects : effects[i].cleaned}
TimersOf(i) == {t \in timers : t.owner = i}

\* C29: after an effect instance was cleaned up, no timer it created is scheduled and it
\* issues no further health check, even when its initial check was in flight at the cleanup.
ClaimC29 ==
    /\ \A i \in CleanedUp : ~effects[i].checking => TimersOf(i) = {}
    /\ latePolls = {}

\* the same, as long as no instance was cleaned up with its initial check in flight
CleanupClearsSettled ==
    (\A i \in DOMAIN effects : ~effects[i].cleanedInFlight) =>
        /\ \A i \in CleanedUp : TimersOf(i) = {}
        /\ latePolls = {}

\* an instance cleaned up in flight polls after the unmount
PollsAfterUnmount == ~fxMounted /\ latePolls # {}

(***************************************************************************)
(* Claims about the messages of the i18n provider                          *)
(***************************************************************************)
AllLoadsResolved == \A l \in Locales : bundleLoads[l] = 0

\* C30: once every pending bundle load has resolved, the messages held are the bundle of
\* the active locale, whatever order the loads resolved in.
ClaimC30 == AllLoadsResolved => messages = Bundle(locale)

\* the messages are those of the active locale when its load is the only one pending
\* and resolves
LastLoadOfActiveLocale ==
    [][\A l \in Locales :
           (bundleLoads[l] = 1 /\ bundleLoads'[l] = 0 /\ l = locale
            /\ \A k \in Locales \ {l} : bundleLoads[k] = 0)
               => messages' = Bundle(locale')]_vars

\* the bundle of the locale that was left is shown
StaleMessages == AllLoadsResolved /\ messages # NoMessages /\ messages # Bundle(locale)

====
